---- MODULE Spec2Model ----
(***************************************************************************)
(* MysteryDigits: the image generator (image_generator.py) and its         *)
(* artifact directory.  Strings are sequences of one-character strings,    *)
(* so that file names are built and taken apart character by character.    *)
(* Times are pairs [s, u] of whole seconds and microseconds.               *)
(***************************************************************************)
EXTENDS Integers, Sequences, FiniteSets, TLC

\* ------------------------------------------------------------- bounds
MaxCalls == 2       \* generate_image calls of the requests, per behaviour
MaxInputCalls == 1  \* generate_image calls of the single caller
MaxTicks == 2       \* clock advances per behaviour
MaxCleanups == 2    \* cleanup_old_images calls per behaviour
MaxFiles == 2       \* artifacts in the directory when the cleanups start
MaxRequests == 1    \* /play and /check_answer requests of the session
MaxWaveWidth == 7   \* widest image handed to apply_wave
MaxWaveHeight == 2  \* tallest image handed to apply_wave
MaxSwirlSide == 3   \* widest and tallest image handed to apply_swirl
RngPeriod == 3      \* draws after which a generator's state comes round
MaxGameRequests == 3  \* requests of the game a player sends
MaxRuns == 2        \* run_migrations calls per behaviour

\* ---------------------------------------------------- program constants
CanvasWidth == 400
CanvasHeight == 200
DefaultMaxAge == 60
MicrosPerSecond == 1000000
SecondsPerMinute == 60

Callers == {"c1", "c2"}
Cleaners == {"k1", "k2"}

\* ------------------------------------------------------------ strings
DigitChars == <<"0", "1", "2", "3", "4", "5", "6", "7", "8", "9">>

DigitSet == {DigitChars[i] : i \in 1..10}

\* str(n) of a Python int
RECURSIVE NatToStr(_)
NatToStr(n) == IF n < 10 THEN <<DigitChars[n + 1]>>
               ELSE NatToStr(n \div 10) \o <<DigitChars[(n % 10) + 1]>>

IntToStr(n) == IF n < 0 THEN <<"-">> \o NatToStr(-n) ELSE NatToStr(n)

\* %0wd: n in decimal, zero-padded on the left to at least w characters
RECURSIVE ZeroPad(_, _)
ZeroPad(s, w) == IF Len(s) >= w THEN s ELSE ZeroPad(<<"0">> \o s, w)

\* Python values passed for number_str / number: None, a str or an int
None == [kind |-> "none"]
PyStr(s) == [kind |-> "str", val |-> s]
PyInt(n) == [kind |-> "int", val |-> n]

\* str(v)
StrOf(v) == IF v.kind = "int" THEN IntToStr(v.val) ELSE v.val

\* -------------------------------------------------------------- tiers
Easy == <<"e", "a", "s", "y">>
Medium == <<"m", "e", "d", "i", "u", "m">>
Hard == <<"h", "a", "r", "d">>
Expert == <<"e", "x", "p", "e", "r", "t">>
Insane == <<"i", "n", "s", "a", "n", "e">>

RecognizedTiers == {Easy, Medium, Hard, Expert, Insane}

\* the keyword parameters of _obliterate; noise in percent, blur in tenths
Recipe(n, b, l, sw, wv, px, inv, con, br) ==
    [noise |-> n, blur |-> b, lines |-> l, swirl |-> sw, wave |-> wv,
     pixelate |-> px, invert |-> inv, contrast |-> con, brightness |-> br]

chaos_style_1 == Recipe(25, 30, 12, TRUE, FALSE, FALSE, TRUE, FALSE, FALSE)
chaos_style_2 == Recipe(30, 25, 14, FALSE, FALSE, TRUE, FALSE, TRUE, FALSE)
chaos_style_3 == Recipe(20, 35, 15, FALSE, TRUE, FALSE, TRUE, FALSE, FALSE)
chaos_style_4 == Recipe(35, 40, 16, TRUE, FALSE, FALSE, TRUE, FALSE, TRUE)
chaos_style_5 == Recipe(40, 50, 18, FALSE, TRUE, TRUE, TRUE, FALSE, FALSE)

\* styles.get(difficulty, self.chaos_style_2)
StyleFor(difficulty) ==
    CASE difficulty = Easy -> chaos_style_1
      [] difficulty = Medium -> chaos_style_2
      [] difficulty = Hard -> chaos_style_3
      [] difficulty = Expert -> chaos_style_4
      [] difficulty = Insane -> chaos_style_5
      [] OTHER -> chaos_style_2

\* -------------------------------------------------------------- image
\* uniform(-40, 40) sampled at three angles; cos and sin in thousandths
Angles == {-40, 0, 15}

CosMilli(a) == CASE a = 0 -> 1000 [] a = 15 -> 966 [] a = -15 -> 966
                 [] a = 40 -> 766 [] a = -40 -> 766

SinMilli(a) == CASE a = 0 -> 0 [] a = 15 -> 259 [] a = -15 -> -259
                 [] a = 40 -> 643 [] a = -40 -> -643

FloorDiv(a, b) == a \div b
CeilDiv(a, b) == -((-a) \div b)

SetMax(S) == CHOOSE x \in S : \A y \in S : y <= x
SetMin(S) == CHOOSE x \in S : \A y \in S : x <= y

\* Image.rotate(angle, expand=1): the bounding box of the four corners turned
\* about the centre, ceil(max) - floor(min) on each axis
RotatedSize(size, angle) ==
    LET w == size[1]
        h == size[2]
        cx == w \div 2
        cy == h \div 2
        corners == {<<0, 0>>, <<w, 0>>, <<w, h>>, <<0, h>>}
        xx == {1000 * cx + CosMilli(angle) * (p[1] - cx)
                 - SinMilli(angle) * (p[2] - cy) : p \in corners}
        yy == {1000 * cy + SinMilli(angle) * (p[1] - cx)
                 + CosMilli(angle) * (p[2] - cy) : p \in corners}
    IN  IF angle = 0 THEN size
        ELSE <<CeilDiv(SetMax(xx), 1000) - FloorDiv(SetMin(xx), 1000),
               CeilDiv(SetMax(yy), 1000) - FloorDiv(SetMin(yy), 1000)>>

NoImage == [size |-> <<0, 0>>, text |-> <<>>]

\* Image.new('RGB', (width, height)) with number_str drawn on it
NewImage(number_str) ==
    [size |-> <<CanvasWidth, CanvasHeight>>, text |-> number_str]

\* _obliterate, as far as the size of the image goes: the rotation expands
\* the canvas, every later stage keeps the size it is given, and only the
\* pixelation resizes back to the (width, height) read on entry
Obliterate(image, recipe, angle) ==
    LET entry == image.size
        rotated == RotatedSize(entry, angle)
    IN  [image EXCEPT !.size = IF recipe.pixelate THEN entry ELSE rotated]

apply_difficulty_effects(image, difficulty, angle) ==
    Obliterate(image, StyleFor(difficulty), angle)

\* --------------------------------------------------------------- time
\* datetime.now(): seconds since 2026-01-01 00:00:00 and microseconds
Time(s, u) == [s |-> s, u |-> u]

\* the clock moves on by one microsecond or by one hour
Jumps == {Time(0, 1), Time(3600, 0)}

TimePlus(t, d) ==
    IF t.u + d.u >= MicrosPerSecond
    THEN Time(t.s + d.s + 1, t.u + d.u - MicrosPerSecond)
    ELSE Time(t.s + d.s, t.u + d.u)

\* later - earlier as a timedelta, normalised to 0 <= u < 10^6
TimeMinus(later, earlier) ==
    IF later.u >= earlier.u
    THEN Time(later.s - earlier.s, later.u - earlier.u)
    ELSE Time(later.s - earlier.s - 1, later.u + MicrosPerSecond - earlier.u)

\* mutant: the timestamp without its microseconds, "%Y%m%d_%H%M%S"
FormatTimestampSeconds(t) ==
    LET day == t.s \div 86400
        sod == t.s % 86400
    IN  ZeroPad(NatToStr(2026), 4) \o ZeroPad(NatToStr(1), 2)
          \o ZeroPad(NatToStr(1 + day), 2) \o <<"_">>
          \o ZeroPad(NatToStr(sod \div 3600), 2)
          \o ZeroPad(NatToStr((sod % 3600) \div 60), 2)
          \o ZeroPad(NatToStr(sod % 60), 2)

\* strftime("%Y%m%d_%H%M%S_%f"), for the days of January 2026
FormatTimestamp(t) ==
    LET day == t.s \div 86400
        sod == t.s % 86400
    IN  ZeroPad(NatToStr(2026), 4) \o ZeroPad(NatToStr(1), 2)
          \o ZeroPad(NatToStr(1 + day), 2) \o <<"_">>
          \o ZeroPad(NatToStr(sod \div 3600), 2)
          \o ZeroPad(NatToStr((sod % 3600) \div 60), 2)
          \o ZeroPad(NatToStr(sod % 60), 2) \o <<"_">>
          \o ZeroPad(NatToStr(t.u), 6)

\* ---------------------------------------------------------- file names
DigitsMarker == <<"d", "i", "g", "i", "t", "s", "_">>
PngSuffix == <<".", "p", "n", "g">>

\* mutant: the tier left out of the name
MakeFilenameNoTier(number_str, difficulty, timestamp) ==
    DigitsMarker \o number_str \o <<"_">>
      \o FormatTimestamp(timestamp) \o PngSuffix

\* f"digits_{number_str}_{difficulty}_{timestamp}.png"
MakeFilename(number_str, difficulty, timestamp) ==
    DigitsMarker \o number_str \o <<"_">> \o difficulty \o <<"_">>
      \o FormatTimestamp(timestamp) \o PngSuffix

\* filename.startswith(prefix)
StartsWith(name, prefix) ==
    Len(name) >= Len(prefix) /\ SubSeq(name, 1, Len(prefix)) = prefix

\* open(os.path.join(output_dir, filename), "w+b") finds the directory it is
\* to create the file in: a "/" in the name points below output_dir, where
\* no directory exists
CanCreate(name) == \A i \in 1..Len(name) : name[i] # "/"

\* -------------------------------------------------------------- state
VARIABLES
    clock,      \* what datetime.now() returns
    files,      \* the artifact directory: file name -> file
    gen,        \* each caller's generate_image invocation
    ncalls,     \* the generate_image calls made
    cl,         \* each cleanup_old_images invocation
    ncleanups,  \* the cleanup_old_images calls made
    web,        \* the player's session and the request it has in flight
    fx,         \* the calls of _obliterate, apply_wave, apply_swirl and
                \* get_font, step by step
    output_dir, \* whether the artifact directory exists
    db,         \* the database: the rows of its tables
    mig,        \* the run_migrations call under way
    rng         \* the process-wide generators of random and numpy.random:
                \* how far each has been drawn from

vars ==
    <<clock, files, gen, ncalls, cl, ncleanups, web, fx, output_dir, db, mig, rng>>

IdleGen ==
    [pc |-> "idle", number_str |-> None, number |-> None, difficulty |-> <<>>,
     text |-> <<>>, image |-> NoImage, entered |-> Time(0, 0),
     timestamp |-> Time(0, 0), filename |-> <<>>, err |-> "none"]

IdleCleanup ==
    [pc |-> "idle", now |-> Time(0, 0), max_age_minutes |-> 0, todo |-> {},
     cur |-> <<>>, caught |-> "none", raised |-> FALSE, quiet |-> TRUE,
     before |-> <<>>, removed |-> {}]

\* GameState.reset, app.py lines 57-65 (start_time left out)
NewGame ==
    [score |-> 0, lives |-> 3, difficulty |-> Easy, current_number |-> None,
     current_image |-> None, questions_answered |-> 0,
     correct_answers |-> 0]

\* no request in flight, the session as get_game_state first makes it
IdleWeb ==
    [pc |-> "idle", route |-> "none", session |-> NewGame,
     game_state |-> NewGame, nreqs |-> 0, game |-> 1]

\* no _obliterate call under way
IdleOb ==
    [pc |-> "idle", recipe |-> chaos_style_2, entry |-> <<0, 0>>,
     size |-> <<0, 0>>, at |-> 0, trace |-> <<>>]

\* no apply_wave call under way
\* no array yet
NoPixels == [size |-> <<0, 0>>, px |-> <<>>]

IdleWave ==
    [pc |-> "idle", args |-> <<>>, dst |-> NoPixels, err |-> "none"]

\* no apply_swirl call under way
IdleSwirl ==
    [pc |-> "idle", src |-> NoPixels, bg_color |-> <<0, 0, 0>>,
     strength |-> 0, dst |-> NoPixels]

\* no get_font call under way
IdleFont ==
    [pc |-> "idle", fonts |-> <<>>, font_size |-> 0, at |-> 0,
     font |-> "none"]

IdleFx ==
    [ob |-> IdleOb, wv |-> IdleWave, sw |-> IdleSwirl, ft |-> IdleFont]

\* a database with the migrations table of init_migration_table and the
\* tables of models.py, all without rows
EmptyDb == [game_sessions |-> <<>>, migrations |-> <<>>, columns |-> {}]

\* the generators as the process starts
FreshRng == [random |-> 0, numpy |-> 0]

\* a draw from a generator reads its state and moves it on
Draw(state, generator) ==
    [state EXCEPT ![generator] = (@ + 1) % RngPeriod]

\* no run_migrations call under way
IdleMig ==
    [pc |-> "idle", at |-> 0, stmt |-> 0, runs |-> 0, failed |-> {}]

Init ==
    /\ clock = Time(0, 0)
    /\ files = <<>>
    /\ gen = [c \in Callers |-> IdleGen]
    /\ ncalls = 0
    /\ cl = [k \in Cleaners |-> IdleCleanup]
    /\ ncleanups = 0
    /\ web = IdleWeb
    /\ fx = IdleFx
    /\ output_dir = "present"
    /\ db = EmptyDb
    /\ mig = IdleMig
    /\ rng = FreshRng

\* the clock advances between two readings
TicksTaken == clock.u + clock.s \div 3600

Tick ==
    /\ TicksTaken < MaxTicks
    /\ \E d \in Jumps : clock' = TimePlus(clock, d)
    /\ UNCHANGED <<files, gen, ncalls, cl, ncleanups, web, fx, output_dir, db,
                 mig, rng>>

\* a cleanup whose scan saw another process change the directory
Disturb(state, k) ==
    [j \in Cleaners |->
        IF j # k /\ state[j].pc # "idle"
        THEN [state[j] EXCEPT !.quiet = FALSE] ELSE state[j]]

\* ----------------------------------------------------- generate_image
\* mutant: no check that one of the two was passed, str(None) is drawn
NormalizeUnchecked(number_str, number) ==
    IF number # None
    THEN [err |-> "none", text |-> StrOf(number)]
    ELSE IF number_str # None
         THEN [err |-> "none", text |-> number_str.val]
         ELSE [err |-> "none", text |-> <<"N", "o", "n", "e">>]

\* mutant: number_str is kept when both are passed
NormalizeStringFirst(number_str, number) ==
    IF number_str # None
    THEN [err |-> "none", text |-> number_str.val]
    ELSE IF number = None
         THEN [err |-> "ValueError", text |-> <<>>]
         ELSE [err |-> "none", text |-> StrOf(number)]

\* lines 23-28: the digit string to draw, or the ValueError
Normalize(number_str, number) ==
    IF number_str = None
    THEN IF number = None
         THEN [err |-> "ValueError", text |-> <<>>]
         ELSE [err |-> "none", text |-> StrOf(number)]
    ELSE IF number # None
         THEN [err |-> "none", text |-> StrOf(number)]
         ELSE [err |-> "none", text |-> number_str.val]

\* lines 21-50: the arguments are normalised, the text is drawn and the
\* effects of the tier are applied; nothing outside the call is touched
Call(c, strs, nums, tiers, limit) ==
    /\ gen[c].pc = "idle"
    /\ ncalls < limit
    /\ ncalls' = ncalls + 1
    /\ \E number_str \in strs, number \in nums, difficulty \in tiers,
          angle \in Angles :
        LET n == Normalize(number_str, number)
            entry == [IdleGen EXCEPT !.number_str = number_str,
                                     !.number = number,
                                     !.difficulty = difficulty,
                                     !.entered = clock]
        IN  gen' = [gen EXCEPT ![c] =
                IF n.err # "none"
                THEN [entry EXCEPT !.pc = "raised", !.err = n.err]
                ELSE [entry EXCEPT
                        !.pc = "rendered",
                        !.text = n.text,
                        !.image = apply_difficulty_effects(
                                      NewImage(n.text), difficulty, angle)]]
    /\ UNCHANGED <<clock, files, cl, ncleanups, web, fx, output_dir, db,
                 mig>>
    /\ rng' = Draw(Draw(rng, "random"), "numpy")

\* lines 53-55: the time is read after the rendering, which took some
Stamp(c) ==
    /\ gen[c].pc = "rendered"
    /\ clock # gen[c].entered
    /\ gen' = [gen EXCEPT ![c].pc = "stamped",
                          ![c].timestamp = clock,
                          ![c].filename = MakeFilename(gen[c].text,
                                              gen[c].difficulty, clock)]
    /\ UNCHANGED <<clock, files, ncalls, cl, ncleanups, web, fx, output_dir, db,
                 mig, rng>>

OthersWriting(c, name) ==
    \E o \in Callers \ {c} : gen[o].pc = "saving" /\ gen[o].filename = name

\* mutant: the directory is emptied before the file is written
SaveOpenAlone(c) ==
    /\ gen[c].pc = "stamped"
    /\ IF output_dir = "present" /\ CanCreate(gen[c].filename)
       THEN /\ files' = (gen[c].filename :>
                           [state |-> "partial", ctime |-> clock,
                            image |-> NoImage,
                            raced |-> OthersWriting(c, gen[c].filename)])
            /\ gen' = [gen EXCEPT ![c].pc = "saving"]
            /\ cl' = Disturb(cl, "none")
       ELSE /\ gen' = [gen EXCEPT ![c].pc = "raised",
                                  ![c].err = "FileNotFoundError"]
            /\ UNCHANGED <<files, cl>>
    /\ UNCHANGED <<clock, ncalls, ncleanups, web, fx, output_dir, db,
                 mig, rng>>

\* line 56, image.save: the file is opened for writing, which creates it
\* or empties it; nothing creates a directory that is missing
SaveOpen(c) ==
    /\ gen[c].pc = "stamped"
    /\ IF output_dir = "present" /\ CanCreate(gen[c].filename)
       THEN /\ files' = (gen[c].filename :>
                           [state |-> "partial", ctime |-> clock,
                            image |-> NoImage,
                            raced |-> OthersWriting(c, gen[c].filename)])
                        @@ files
            /\ gen' = [gen EXCEPT ![c].pc = "saving"]
            /\ cl' = Disturb(cl, "none")
       ELSE /\ gen' = [gen EXCEPT ![c].pc = "raised",
                                  ![c].err = "FileNotFoundError"]
            /\ UNCHANGED <<files, cl>>
    /\ UNCHANGED <<clock, ncalls, ncleanups, web, fx, output_dir, db,
                 mig, rng>>

\* line 56, image.save: the PNG bytes are written and the file is closed.
\* A file unlinked in the meantime stays gone; two writers of one file
\* leave it whole or mixed.
SaveWrite(c) ==
    /\ gen[c].pc = "saving"
    /\ IF gen[c].filename \in DOMAIN files
       THEN /\ \E st \in (IF files[gen[c].filename].raced
                          THEN {"complete", "corrupt"} ELSE {"complete"}) :
                 files' = [files EXCEPT ![gen[c].filename] =
                             [@ EXCEPT !.state = st, !.ctime = clock,
                                       !.image = gen[c].image]]
            /\ cl' = Disturb(cl, "none")
       ELSE UNCHANGED <<files, cl>>
    /\ gen' = [gen EXCEPT ![c].pc = "returned"]
    /\ UNCHANGED <<clock, ncalls, ncleanups, web, fx, output_dir, db,
                 mig, rng>>

\* line 57, or the exception leaving the call
Return(c) ==
    /\ gen[c].pc \in {"returned", "raised"}
    /\ gen' = [gen EXCEPT ![c] = IdleGen]
    /\ UNCHANGED <<clock, files, ncalls, cl, ncleanups, web, fx, output_dir, db,
                 mig, rng>>

\* lines 8-19, app.py line 27: the application starts and constructs its
\* ImageGenerator, which creates the directory if it is missing
Construct ==
    /\ \A c \in Callers : gen[c].pc = "idle"
    /\ output_dir' = "present"
    /\ UNCHANGED <<clock, files, gen, ncalls, cl, ncleanups, web, fx, db, mig, rng>>

\* the directory is removed, with what it holds, while no call is saving
RemoveDirectory ==
    /\ output_dir = "present"
    /\ \A c \in Callers : gen[c].pc # "saving"
    /\ output_dir' = "absent"
    /\ files' = <<>>
    /\ UNCHANGED <<clock, gen, ncalls, cl, ncleanups, web, fx, db, mig, rng>>

\* ------------------------------------------------- cleanup_old_images
CleanupAges == {0, DefaultMaxAge}

\* mutant: >= in place of >
ExpiredAtOrOver(now, file_time, max_age_minutes) ==
    LET age == TimeMinus(now, file_time)
    IN  age.s >= max_age_minutes * SecondsPerMinute

\* line 234: (now - file_time).total_seconds() / 60 > max_age_minutes
Expired(now, file_time, max_age_minutes) ==
    LET age == TimeMinus(now, file_time)
    IN  \/ age.s > max_age_minutes * SecondsPerMinute
        \/ age.s = max_age_minutes * SecondsPerMinute /\ age.u > 0

\* mutant: no try/except around the scan
OnCleanupErrorPropagates(state, exc) ==
    [state EXCEPT !.pc = "done", !.raised = TRUE]

\* mutant: the try/except inside the loop, the scan goes on after a failure
OnCleanupErrorContinues(state, exc) ==
    [state EXCEPT !.pc = "scan", !.caught = exc]

\* lines 236-237: the except clause prints the error and the call returns
OnCleanupError(state, exc) ==
    [state EXCEPT !.pc = "done", !.caught = exc]

\* lines 229-230: the time is read and the directory is listed, unless
\* os.listdir fails
CleanupStart(k) ==
    /\ cl[k].pc = "idle"
    /\ ncleanups < MaxCleanups
    /\ ncleanups' = ncleanups + 1
    /\ \E max_age_minutes \in CleanupAges, listed \in BOOLEAN :
         LET entry == [IdleCleanup EXCEPT
                          !.now = clock,
                          !.max_age_minutes = max_age_minutes,
                          !.before = files]
         IN  cl' = [cl EXCEPT ![k] =
                      IF listed
                      THEN [entry EXCEPT !.pc = "scan", !.todo = DOMAIN files]
                      ELSE OnCleanupError(entry, "OSError")]
    /\ UNCHANGED <<clock, files, gen, ncalls, web, fx, output_dir, db,
                 mig, rng>>

\* mutant: no test of the name, every listed file is aged and removed
CleanupVisitAnyName(k) ==
    /\ cl[k].pc = "scan"
    /\ \E filename \in cl[k].todo :
         LET rest == [cl[k] EXCEPT !.todo = @ \ {filename}]
         IN  cl' = [cl EXCEPT ![k] =
               IF filename \notin DOMAIN files
               THEN OnCleanupError(rest, "FileNotFoundError")
               ELSE IF Expired(cl[k].now, files[filename].ctime,
                               cl[k].max_age_minutes)
                    THEN [rest EXCEPT !.pc = "remove", !.cur = filename]
               ELSE rest]
    /\ UNCHANGED <<clock, files, gen, ncalls, ncleanups, web, fx, output_dir, db,
                 mig, rng>>

\* lines 230-234: the next listed name; its creation time is looked up
CleanupVisit(k) ==
    /\ cl[k].pc = "scan"
    /\ \E filename \in cl[k].todo :
         LET rest == [cl[k] EXCEPT !.todo = @ \ {filename}]
         IN  cl' = [cl EXCEPT ![k] =
               IF ~StartsWith(filename, DigitsMarker) THEN rest
               ELSE IF filename \notin DOMAIN files
                    THEN OnCleanupError(rest, "FileNotFoundError")
               ELSE IF Expired(cl[k].now, files[filename].ctime,
                               cl[k].max_age_minutes)
                    THEN [rest EXCEPT !.pc = "remove", !.cur = filename]
               ELSE rest]
    /\ UNCHANGED <<clock, files, gen, ncalls, ncleanups, web, fx, output_dir, db,
                 mig, rng>>

\* line 235: os.remove(filepath)
CleanupRemove(k) ==
    /\ cl[k].pc = "remove"
    /\ IF cl[k].cur \in DOMAIN files
       THEN /\ files' = [n \in DOMAIN files \ {cl[k].cur} |-> files[n]]
            /\ cl' = [Disturb(cl, k) EXCEPT
                        ![k].pc = "scan",
                        ![k].removed = @ \cup {cl[k].cur}]
       ELSE /\ cl' = [cl EXCEPT ![k] =
                        OnCleanupError(cl[k], "FileNotFoundError")]
            /\ UNCHANGED files
    /\ UNCHANGED <<clock, gen, ncalls, ncleanups, web, fx, output_dir, db,
                 mig, rng>>

\* the loop has gone through the listing
CleanupFinish(k) ==
    /\ cl[k].pc = "scan"
    /\ cl[k].todo = {}
    /\ cl' = [cl EXCEPT ![k].pc = "done"]
    /\ UNCHANGED <<clock, files, gen, ncalls, ncleanups, web, fx, output_dir, db,
                 mig, rng>>

\* the caller goes on
CleanupReturn(k) ==
    /\ cl[k].pc = "done"
    /\ cl' = [cl EXCEPT ![k] = IdleCleanup]
    /\ UNCHANGED <<clock, files, gen, ncalls, ncleanups, web, fx, output_dir, db,
                 mig, rng>>

\* ------------------------------------------------------ app.py, the game
\* GameState.generate_new_number, lines 67-86: some of the numbers it draws
\* for each tier (1-3, 2-4, 3-5 and 4-6 digits, no leading zero)
NumbersFor(difficulty) ==
    CASE difficulty = Easy -> {<<"7">>, <<"4", "2">>}
      [] difficulty = Medium -> {<<"4", "2">>}
      [] difficulty = Hard -> {<<"1", "2", "3">>}
      [] difficulty = Expert -> {<<"1", "2", "3", "4">>}

\* GameState.update_difficulty, lines 88-97
update_difficulty(score) ==
    IF score >= 50 THEN Expert
    ELSE IF score >= 25 THEN Hard
    ELSE IF score >= 10 THEN Medium
    ELSE Easy

\* check_answer, line 258
Points(difficulty) ==
    CASE difficulty = Easy -> 1
      [] difficulty = Medium -> 2
      [] difficulty = Hard -> 3
      [] difficulty = Expert -> 5

\* the routes of the game, and those that show an image
GameRoutes == {"play", "check_answer", "game_over", "restart"}
PlayRoutes == {"play", "check_answer"}

\* save_game_session, lines 120-135: the logged-in player's finished game
\* becomes a row of game_sessions; game tells which game the row is of
save_game_session(rows, game_state, game) ==
    Append(rows, [game |-> game,
                  final_score |-> game_state.score,
                  questions_answered |-> game_state.questions_answered,
                  correct_answers |-> game_state.correct_answers,
                  max_difficulty |-> game_state.difficulty])

\* a request arrives: get_game_state reads the session (lines 224, 251, 298
\* and 310)
WebBegin(routes, limit) ==
    /\ web.pc = "idle"
    /\ web.nreqs < limit
    /\ \E route \in routes :
         web' = [web EXCEPT !.pc = route, !.route = route,
                            !.game_state = web.session,
                            !.nreqs = @ + 1]
    /\ UNCHANGED <<clock, files, gen, ncalls, cl, ncleanups, fx, output_dir, db,
                 mig, rng>>

\* play, lines 226-227: a session without a number gets one
PlayStart ==
    /\ web.pc = "play"
    /\ IF web.game_state.current_number = None
       THEN \E n \in NumbersFor(web.game_state.difficulty) :
              web' = [web EXCEPT !.pc = "play_generate",
                                 !.game_state.current_number = PyStr(n)]
       ELSE web' = [web EXCEPT !.pc = "play_purge"]
    /\ UNCHANGED <<clock, files, gen, ncalls, cl, ncleanups, fx, output_dir, db,
                 mig>>
    /\ rng' = IF web.game_state.current_number = None THEN Draw(rng, "random") ELSE rng

\* check_answer, lines 251-271: the guess is judged, the tier follows the
\* score and the next number is drawn
CheckStart ==
    /\ web.pc = "check_answer"
    /\ \E is_correct \in (IF web.game_state.current_number = None
                          THEN {FALSE} ELSE BOOLEAN) :
         LET g == web.game_state
             judged == IF is_correct
                       THEN [g EXCEPT
                               !.score = @ + Points(g.difficulty),
                               !.questions_answered = @ + 1,
                               !.correct_answers = @ + 1]
                       ELSE [g EXCEPT
                               !.lives = @ - 1,
                               !.questions_answered = @ + 1]
             tier == update_difficulty(judged.score)
         IN  \E n \in NumbersFor(tier) :
               web' = [web EXCEPT
                         !.pc = "check_generate",
                         !.game_state = [judged EXCEPT
                                           !.difficulty = tier,
                                           !.current_number = PyStr(n)]]
    /\ UNCHANGED <<clock, files, gen, ncalls, cl, ncleanups, fx, output_dir, db,
                 mig>>
    /\ rng' = Draw(rng, "random")

GeneratingPcs == {"play_generate", "check_generate", "ensure_generate"}

\* image_gen.generate_image(number=game_state.current_number,
\* difficulty=game_state.difficulty), lines 38, 45, 228 and 272, as far as
\* its return
WebGenerate(limit) ==
    /\ web.pc \in GeneratingPcs
    /\ \/ Call("c1", {None}, {web.game_state.current_number},
               {web.game_state.difficulty}, limit)
       \/ Stamp("c1")
       \/ SaveOpen("c1")
       \/ SaveWrite("c1")

\* the name returned becomes current_image; play and check_answer save the
\* game state at once (lines 232, 277); an exception ends the request
WebTakeImage ==
    /\ web.pc \in GeneratingPcs
    /\ gen["c1"].pc \in {"returned", "raised"}
    /\ gen' = [gen EXCEPT !["c1"] = IdleGen]
    /\ UNCHANGED <<clock, files, ncalls, cl, ncleanups, fx, output_dir, db,
                 mig, rng>>
    /\ LET g == [web.game_state EXCEPT
                   !.current_image = PyStr(gen["c1"].filename)]
       IN  web' =
             IF gen["c1"].pc = "raised"
             THEN [web EXCEPT !.pc = "crashed"]
             ELSE IF web.pc = "ensure_generate"
                  THEN [web EXCEPT !.pc = "ensured", !.game_state = g]
             ELSE [web EXCEPT
                     !.pc = IF web.pc = "play_generate"
                            THEN "play_purge" ELSE "ensure",
                     !.game_state = g, !.session = g]

\* play, line 234: random.random() < 0.1
PlayPurge ==
    /\ web.pc = "play_purge"
    /\ \E purge \in {b \in BOOLEAN : b => ncleanups < MaxCleanups} :
         web' = [web EXCEPT !.pc = IF purge THEN "play_cleaning"
                                   ELSE "ensure"]
    /\ UNCHANGED <<clock, files, gen, ncalls, cl, ncleanups, fx, output_dir, db,
                 mig>>
    /\ rng' = Draw(rng, "random")

\* cleanup_old_images() with its default max_age_minutes, as app.py calls it
DefaultCleanup(k) ==
    \/ CleanupStart(k) /\ cl'[k].max_age_minutes = DefaultMaxAge
    \/ CleanupVisit(k)
    \/ CleanupRemove(k)
    \/ CleanupFinish(k)

\* play, line 235
WebCleanup ==
    /\ web.pc = "play_cleaning"
    /\ DefaultCleanup("k1")

WebCleanupDone ==
    /\ web.pc = "play_cleaning"
    /\ cl["k1"].pc = "done"
    /\ cl' = [cl EXCEPT !["k1"] = IdleCleanup]
    /\ web' = [web EXCEPT !.pc = "ensure"]
    /\ UNCHANGED <<clock, files, gen, ncalls, ncleanups, fx, output_dir, db,
                 mig, rng>>

\* mutant: only a session without an image gets one
EnsureCheckNoLookup ==
    /\ web.pc = "ensure"
    /\ web' = [web EXCEPT
                 !.pc = IF web.game_state.current_image = None
                        THEN "ensure_generate" ELSE "ensured"]
    /\ UNCHANGED <<clock, files, gen, ncalls, cl, ncleanups, fx, output_dir, db,
                 mig, rng>>

\* ensure_image_for_state, lines 35-47: no current_image, or no file of
\* that name, and the image is generated again
EnsureCheck ==
    /\ web.pc = "ensure"
    /\ web' = [web EXCEPT
                 !.pc = IF web.game_state.current_image = None
                        THEN "ensure_generate"
                        ELSE IF web.game_state.current_image.val
                                  \notin DOMAIN files
                             THEN "ensure_generate" ELSE "ensured"]
    /\ UNCHANGED <<clock, files, gen, ncalls, cl, ncleanups, fx, output_dir, db,
                 mig, rng>>

\* lines 239-247 and 280-293: the game state is saved and the page is
\* rendered, or a game without lives is sent on to /game_over
EnsuredSave ==
    /\ web.pc = "ensured"
    /\ LET over == web.route = "check_answer" /\ web.game_state.lives <= 0
       IN  /\ web' = [web EXCEPT
                        !.session = web.game_state,
                        !.pc = IF over THEN "redirected" ELSE "rendered"]
           /\ db' = IF over
                    THEN [db EXCEPT !.game_sessions =
                            save_game_session(@, web.game_state, web.game)]
                    ELSE db
    /\ UNCHANGED <<clock, files, gen, ncalls, cl, ncleanups, fx, output_dir,
                   mig, rng>>

\* game_over, line 300: the game is recorded
GameOverSave ==
    /\ web.pc = "game_over"
    /\ db' = [db EXCEPT !.game_sessions =
                save_game_session(@, web.game_state, web.game)]
    /\ web' = [web EXCEPT !.pc = "game_over_reset"]
    /\ UNCHANGED <<clock, files, gen, ncalls, cl, ncleanups, fx, output_dir,
                   mig, rng>>

\* game_over, lines 301-304: a new game is put in the session and the final
\* score is shown
GameOverReset ==
    /\ web.pc = "game_over_reset"
    /\ web' = [web EXCEPT !.pc = "rendered", !.game_state = NewGame,
                          !.session = NewGame, !.game = @ + 1]
    /\ UNCHANGED <<clock, files, gen, ncalls, cl, ncleanups, fx, output_dir, db,
                   mig, rng>>

\* restart, lines 307-313: a new game is put in the session and the player
\* is sent to /play
Restart ==
    /\ web.pc = "restart"
    /\ web' = [web EXCEPT !.pc = "redirected", !.game_state = NewGame,
                          !.session = NewGame, !.game = @ + 1]
    /\ UNCHANGED <<clock, files, gen, ncalls, cl, ncleanups, fx, output_dir, db,
                   mig, rng>>

\* the response is sent
WebEnd ==
    /\ web.pc \in {"rendered", "redirected", "crashed"}
    /\ web' = [web EXCEPT !.pc = "idle", !.route = "none",
                          !.game_state = web.session]
    /\ UNCHANGED <<clock, files, gen, ncalls, cl, ncleanups, fx, output_dir, db,
                 mig, rng>>

\* the /play request of another player runs the cleanup, once
OtherCleanup == DefaultCleanup("k2")

\* rendering an image takes time: the clock moves on by a microsecond
PlayTick ==
    /\ clock.u < MaxTicks
    /\ gen["c1"].pc = "rendered"
    /\ clock' = TimePlus(clock, Time(0, 1))
    /\ UNCHANGED <<files, gen, ncalls, cl, ncleanups, web, fx, output_dir, db,
                 mig, rng>>

\* rendering an image takes time: the clock has moved on by a microsecond
\* when the time is read
GameTick ==
    /\ gen["c1"].pc = "rendered"
    /\ clock = gen["c1"].entered
    /\ clock' = TimePlus(clock, Time(0, 1))
    /\ UNCHANGED <<files, gen, ncalls, cl, ncleanups, web, fx, output_dir, db,
                   mig, rng>>

\* ------------------------------------------- _obliterate, step by step
\* mutant: the noise is blended in before the rotation
StageOrderNoiseFirst ==
    <<"noise", "rotate", "pixelate", "invert", "contrast", "brightness",
      "swirl", "wave", "lines", "blur", "channel">>

\* mutant: the wave before the swirl
StageOrderWaveFirst ==
    <<"rotate", "noise", "pixelate", "invert", "contrast", "brightness",
      "wave", "swirl", "lines", "blur", "channel">>

\* mutant: the geometric transforms first, then contrast and brightness
\* before the noise
StageOrderDistortFirst ==
    <<"rotate", "wave", "swirl", "contrast", "brightness", "noise",
      "pixelate", "invert", "channel", "lines", "blur">>

\* mutant: the lines drawn on the blurred image
StageOrderLinesLast ==
    <<"rotate", "noise", "pixelate", "invert", "contrast", "brightness",
      "swirl", "wave", "blur", "lines", "channel">>

\* the statements of _obliterate that work on the pixels, in the order of
\* lines 128-172
StageOrder ==
    <<"rotate", "noise", "pixelate", "invert", "contrast", "brightness",
      "swirl", "wave", "lines", "blur", "channel">>

\* the statement the call has come to
Stage == IF fx.ob.pc = "running" THEN StageOrder[fx.ob.at] ELSE "none"

\* random.randint(6, 18), line 139
PixelFactors == {6, 18}

\* random.uniform(0.2, 3.0), line 151, and random.uniform(0.3, 2.0),
\* line 153, in percent; enhance(1.0) returns a copy of the image
ContrastFactors == {20, 100, 300}
BrightnessFactors == {30, 100, 200}

\* _obliterate(image, 0, 0, 0): every parameter at zero, every flag False
Skipping == Recipe(0, 0, 0, FALSE, FALSE, FALSE, FALSE, FALSE, FALSE)

\* _obliterate(image, swirl=True, wave=True), the other parameters at the
\* defaults of line 121
SwirlAndWave == Recipe(20, 30, 10, TRUE, TRUE, FALSE, FALSE, FALSE, FALSE)

ObRecipes ==
    {chaos_style_1, chaos_style_2, chaos_style_3, chaos_style_4,
     chaos_style_5, Skipping, SwirlAndWave}

\* the call goes on to its next statement, or to the return of line 174
Onward(ob) ==
    [ob EXCEPT !.at = @ + 1,
               !.pc = IF ob.at = Len(StageOrder) THEN "returned"
                      ELSE "running"]

\* a statement has worked on the image: changed tells whether the image it
\* leaves can differ from the one it was given
Ran(ob, stage, changed, size) ==
    [Onward(ob) EXCEPT
       !.trace = Append(@, [stage |-> stage, changed |-> changed]),
       !.size = size]

\* lines 123-125: a chaos style calls _obliterate on the rendered canvas
ObEnter ==
    /\ fx.ob.pc = "idle"
    /\ \E recipe \in ObRecipes :
         fx' = [fx EXCEPT !.ob =
                  [pc |-> "running", recipe |-> recipe,
                   entry |-> <<CanvasWidth, CanvasHeight>>,
                   size |-> <<CanvasWidth, CanvasHeight>>,
                   at |-> 1, trace |-> <<>>]]
    /\ UNCHANGED <<clock, files, gen, ncalls, cl, ncleanups, web, output_dir, db,
                 mig, rng>>

\* line 128: img.rotate(random.uniform(-40, 40), expand=1, fillcolor=white);
\* a rotation by 0 returns a copy
ObRotate ==
    /\ Stage = "rotate"
    /\ \E angle \in Angles :
         fx' = [fx EXCEPT !.ob = Ran(@, "rotate", angle # 0,
                                     RotatedSize(fx.ob.size, angle))]
    /\ UNCHANGED <<clock, files, gen, ncalls, cl, ncleanups, web, output_dir, db,
                 mig>>
    /\ rng' = Draw(rng, "random")

\* lines 133-135: np_img * (1 - noise) + noise_matrix * noise, with any
\* recipe; with noise = 0 that is np_img
ObNoise ==
    /\ Stage = "noise"
    /\ fx' = [fx EXCEPT !.ob = Ran(@, "noise", fx.ob.recipe.noise > 0,
                                   fx.ob.size)]
    /\ UNCHANGED <<clock, files, gen, ncalls, cl, ncleanups, web, output_dir, db,
                 mig>>
    /\ rng' = Draw(rng, "numpy")

\* lines 138-141: down by a factor and back up to the (width, height) read
\* on entry
ObPixelate ==
    /\ Stage = "pixelate"
    /\ IF fx.ob.recipe.pixelate
       THEN \E factor \in PixelFactors :
              fx' = [fx EXCEPT !.ob = Ran(@, "pixelate", TRUE, fx.ob.entry)]
       ELSE fx' = [fx EXCEPT !.ob = Onward(@)]
    /\ UNCHANGED <<clock, files, gen, ncalls, cl, ncleanups, web, output_dir, db,
                 mig>>
    /\ rng' = IF fx.ob.recipe.pixelate THEN Draw(rng, "random") ELSE rng

\* lines 146-147: if invert and random.random() > 0.3
ObInvert ==
    /\ Stage = "invert"
    /\ \E above \in BOOLEAN :
         fx' = [fx EXCEPT !.ob =
                  IF fx.ob.recipe.invert /\ above
                  THEN Ran(@, "invert", TRUE, fx.ob.size)
                  ELSE Onward(@)]
    /\ UNCHANGED <<clock, files, gen, ncalls, cl, ncleanups, web, output_dir, db,
                 mig>>
    /\ rng' = IF fx.ob.recipe.invert THEN Draw(rng, "random") ELSE rng

\* lines 150-151
ObContrast ==
    /\ Stage = "contrast"
    /\ IF fx.ob.recipe.contrast
       THEN \E factor \in ContrastFactors :
              fx' = [fx EXCEPT !.ob = Ran(@, "contrast", factor # 100,
                                          fx.ob.size)]
       ELSE fx' = [fx EXCEPT !.ob = Onward(@)]
    /\ UNCHANGED <<clock, files, gen, ncalls, cl, ncleanups, web, output_dir, db,
                 mig>>
    /\ rng' = IF fx.ob.recipe.contrast THEN Draw(rng, "random") ELSE rng

\* lines 152-153
ObBrightness ==
    /\ Stage = "brightness"
    /\ IF fx.ob.recipe.brightness
       THEN \E factor \in BrightnessFactors :
              fx' = [fx EXCEPT !.ob = Ran(@, "brightness", factor # 100,
                                          fx.ob.size)]
       ELSE fx' = [fx EXCEPT !.ob = Onward(@)]
    /\ UNCHANGED <<clock, files, gen, ncalls, cl, ncleanups, web, output_dir, db,
                 mig>>
    /\ rng' = IF fx.ob.recipe.brightness THEN Draw(rng, "random") ELSE rng

\* lines 156-157
ObSwirl ==
    /\ Stage = "swirl"
    /\ fx' = [fx EXCEPT !.ob = IF fx.ob.recipe.swirl
                               THEN Ran(@, "swirl", TRUE, fx.ob.size)
                               ELSE Onward(@)]
    /\ UNCHANGED <<clock, files, gen, ncalls, cl, ncleanups, web, output_dir, db,
                 mig>>
    /\ rng' = IF fx.ob.recipe.swirl THEN Draw(rng, "random") ELSE rng

\* lines 158-159
ObWave ==
    /\ Stage = "wave"
    /\ fx' = [fx EXCEPT !.ob = IF fx.ob.recipe.wave
                               THEN Ran(@, "wave", TRUE, fx.ob.size)
                               ELSE Onward(@)]
    /\ UNCHANGED <<clock, files, gen, ncalls, cl, ncleanups, web, output_dir, db,
                 mig, rng>>

\* mutant: add_random_lines draws one line more than it is asked for
ObLinesOneMore ==
    /\ Stage = "lines"
    /\ fx' = [fx EXCEPT !.ob = Ran(@, "lines", fx.ob.recipe.lines + 1 > 0,
                                   fx.ob.size)]
    /\ UNCHANGED <<clock, files, gen, ncalls, cl, ncleanups, web, output_dir, db,
                 mig>>
    /\ rng' = IF fx.ob.recipe.lines + 1 > 0 THEN Draw(rng, "random") ELSE rng

\* line 162 and lines 210-222: add_random_lines draws lines lines, with any
\* recipe
ObLines ==
    /\ Stage = "lines"
    /\ fx' = [fx EXCEPT !.ob = Ran(@, "lines", fx.ob.recipe.lines > 0,
                                   fx.ob.size)]
    /\ UNCHANGED <<clock, files, gen, ncalls, cl, ncleanups, web, output_dir, db,
                 mig>>
    /\ rng' = IF fx.ob.recipe.lines > 0 THEN Draw(rng, "random") ELSE rng

\* line 165: img.filter(ImageFilter.GaussianBlur(blur)), with any recipe; a
\* radius of 0 returns a copy
ObBlur ==
    /\ Stage = "blur"
    /\ fx' = [fx EXCEPT !.ob = Ran(@, "blur", fx.ob.recipe.blur > 0,
                                   fx.ob.size)]
    /\ UNCHANGED <<clock, files, gen, ncalls, cl, ncleanups, web, output_dir, db,
                 mig, rng>>

\* lines 168-172: if random.random() > 0.5, one channel becomes 255 - value,
\* with any recipe
ObChannel ==
    /\ Stage = "channel"
    /\ \E above \in BOOLEAN :
         fx' = [fx EXCEPT !.ob = IF above
                                 THEN Ran(@, "channel", TRUE, fx.ob.size)
                                 ELSE Onward(@)]
    /\ UNCHANGED <<clock, files, gen, ncalls, cl, ncleanups, web, output_dir, db,
                 mig>>
    /\ rng' = Draw(rng, "random")

\* line 174: the chaos style has the image and the next call can start
ObReturn ==
    /\ fx.ob.pc = "returned"
    /\ fx' = [fx EXCEPT !.ob = IdleOb]
    /\ UNCHANGED <<clock, files, gen, ncalls, cl, ncleanups, web, output_dir, db,
                 mig, rng>>

\* ------------------------------------------------------------ apply_wave
\* An image is its size and its pixels, px[<<x, y>>] for 0 <= x < width and
\* 0 <= y < height.

\* line 185: int(10 * np.sin(2 * np.pi * y / 30)) for y = 0, 1, ..., 9
WaveOffsetX == <<0, 2, 4, 5, 7, 8, 9, 9, 9, 9>>

\* line 186: int(8 * np.cos(2 * np.pi * x / 25)) for x = 0, 1, ..., 9
WaveOffsetY == <<8, 7, 7, 5, 4, 2, 0, -1, -3, -5>>

offset_x(y) == WaveOffsetX[y + 1]
offset_y(x) == WaveOffsetY[x + 1]

\* lines 187-188: max(0, min(limit, v))
Clamp(v, limit) == IF v < 0 THEN 0 ELSE IF v > limit THEN limit ELSE v

\* lines 180-190: every pixel of the result is read from the source pixel
\* the two offsets point at, kept inside the image
apply_wave(image) ==
    LET width == image.size[1]
        height == image.size[2]
    IN  [size |-> image.size,
         px |-> [p \in DOMAIN image.px |->
                   image.px[<<Clamp(p[1] + offset_x(p[2]), width - 1),
                              Clamp(p[2] + offset_y(p[1]), height - 1)>>]]]

\* the images of a width and height: every pixel its own colour, or every
\* pixel the same colour
Pixels(width, height) == (0 .. width - 1) \X (0 .. height - 1)
Distinct(width, height) ==
    [size |-> <<width, height>>,
     px |-> [p \in Pixels(width, height) |-> p[1] + width * p[2]]]
Uniform(width, height) ==
    [size |-> <<width, height>>,
     px |-> [p \in Pixels(width, height) |-> 0]]
WaveImages ==
    UNION {{Distinct(w, h), Uniform(w, h)} :
             w \in 1 .. MaxWaveWidth, h \in 1 .. MaxWaveHeight}

\* what a caller may pass after the image: nothing, or an amplitude
WaveAmplitudes == {<<>>, <<PyInt(0)>>, <<PyInt(10)>>}

\* a caller calls apply_wave(image) or apply_wave(image, amplitude)
WaveCall ==
    /\ fx.wv.pc = "idle"
    /\ \E image \in WaveImages, rest \in WaveAmplitudes :
         fx' = [fx EXCEPT !.wv = [IdleWave EXCEPT !.pc = "called",
                                                  !.args = <<image>> \o rest]]
    /\ UNCHANGED <<clock, files, gen, ncalls, cl, ncleanups, web, output_dir, db,
                 mig, rng>>

\* line 178: def apply_wave(self, image) binds one argument after self, a
\* call with more raises TypeError before the body runs; lines 180-190
\* otherwise
WaveRun ==
    /\ fx.wv.pc = "called"
    /\ fx' = [fx EXCEPT !.wv =
                IF Len(fx.wv.args) = 1
                THEN [@ EXCEPT !.pc = "returned",
                               !.dst = apply_wave(fx.wv.args[1])]
                ELSE [@ EXCEPT !.pc = "raised", !.err = "TypeError"]]
    /\ UNCHANGED <<clock, files, gen, ncalls, cl, ncleanups, web, output_dir, db,
                 mig, rng>>

\* the caller has the result, or the exception
WaveDone ==
    /\ fx.wv.pc \in {"returned", "raised"}
    /\ fx' = [fx EXCEPT !.wv = IdleWave]
    /\ UNCHANGED <<clock, files, gen, ncalls, cl, ncleanups, web, output_dir, db,
                 mig, rng>>

\* ----------------------------------------------------------- apply_swirl
\* A colour is its three channels.
Black == <<0, 0, 0>>
White == <<255, 255, 255>>

\* lines 76-77: three channels of random.randint(160, 255)
Backgrounds == {<<160, 160, 160>>, <<255, 200, 160>>}

\* lines 79-81: black on a background brighter than 180, white otherwise
get_contrasting_color(bg_color) ==
    IF bg_color[1] + bg_color[2] + bg_color[3] > 3 * 180 THEN Black
    ELSE White

\* lines 32 and 46: a canvas filled with the background colour, the text
\* drawn on the pixels of ink
Canvas(width, height, bg_color, ink) ==
    [size |-> <<width, height>>,
     px |-> [p \in Pixels(width, height) |->
               IF p \in ink THEN get_contrasting_color(bg_color)
               ELSE bg_color]]

\* line 198: random.uniform(3, 6)
Strengths == {3, 6}

\* lines 201-205: for a pixel dx, dy from the centre of an image of a
\* width, the floors of r * np.cos(angle) and r * np.sin(angle), where
\* r = np.sqrt(dx*dx + dy*dy), angle = np.arctan2(dy, dx) + strength*r/width
SwirlTurn ==
    <<0, -2, 1, 3>> :> <<-1, -2>>
    @@ <<0, -1, 1, 3>> :> <<0, 0>>
    @@ <<0, 0, 1, 3>> :> <<0, 0>>
    @@ <<0, 1, 1, 3>> :> <<-1, -1>>
    @@ <<-1, -2, 2, 3>> :> <<0, 2>> @@ <<0, -2, 2, 3>> :> <<0, 1>>
    @@ <<-1, -1, 2, 3>> :> <<1, -1>> @@ <<0, -1, 2, 3>> :> <<0, -1>>
    @@ <<-1, 0, 2, 3>> :> <<-1, -1>> @@ <<0, 0, 2, 3>> :> <<0, 0>>
    @@ <<-1, 1, 2, 3>> :> <<-1, -2>> @@ <<0, 1, 2, 3>> :> <<-1, 0>>
    @@ <<-1, -2, 3, 3>> :> <<2, 0>> @@ <<0, -2, 3, 3>> :> <<1, 0>>
    @@ <<1, -2, 3, 3>> :> <<0, 2>>
    @@ <<-1, -1, 3, 3>> :> <<0, -2>> @@ <<0, -1, 3, 3>> :> <<0, -1>>
    @@ <<1, -1, 3, 3>> :> <<1, 0>>
    @@ <<-1, 0, 3, 3>> :> <<-1, -1>> @@ <<0, 0, 3, 3>> :> <<0, 0>>
    @@ <<1, 0, 3, 3>> :> <<0, 0>>
    @@ <<-1, 1, 3, 3>> :> <<-2, -1>> @@ <<0, 1, 3, 3>> :> <<-1, 0>>
    @@ <<1, 1, 3, 3>> :> <<-1, 1>>
    @@ <<-2, -2, 4, 3>> :> <<2, -1>> @@ <<-1, -2, 4, 3>> :> <<2, -1>>
    @@ <<0, -2, 4, 3>> :> <<1, -1>> @@ <<1, -2, 4, 3>> :> <<1, 1>>
    @@ <<-2, -1, 4, 3>> :> <<1, -2>> @@ <<-1, -1, 4, 3>> :> <<0, -2>>
    @@ <<0, -1, 4, 3>> :> <<0, -1>> @@ <<1, -1, 4, 3>> :> <<1, 0>>
    @@ <<-2, 0, 4, 3>> :> <<-1, -2>> @@ <<-1, 0, 4, 3>> :> <<-1, -1>>
    @@ <<0, 0, 4, 3>> :> <<0, 0>> @@ <<1, 0, 4, 3>> :> <<0, 0>>
    @@ <<-2, 1, 4, 3>> :> <<-1, -3>> @@ <<-1, 1, 4, 3>> :> <<-2, -1>>
    @@ <<0, 1, 4, 3>> :> <<-1, 0>> @@ <<1, 1, 4, 3>> :> <<-1, 1>>
    @@ <<0, -2, 1, 6>> :> <<-2, -2>>
    @@ <<0, -1, 1, 6>> :> <<-1, -1>>
    @@ <<0, 0, 1, 6>> :> <<0, 0>>
    @@ <<0, 1, 1, 6>> :> <<0, 0>>
    @@ <<-1, -2, 2, 6>> :> <<-1, -3>> @@ <<0, -2, 2, 6>> :> <<-1, -2>>
    @@ <<-1, -1, 2, 6>> :> <<-1, 1>> @@ <<0, -1, 2, 6>> :> <<0, 0>>
    @@ <<-1, 0, 2, 6>> :> <<0, -1>> @@ <<0, 0, 2, 6>> :> <<0, 0>>
    @@ <<-1, 1, 2, 6>> :> <<1, 0>> @@ <<0, 1, 2, 6>> :> <<-1, -1>>
    @@ <<-1, -2, 3, 6>> :> <<-2, 1>> @@ <<0, -2, 3, 6>> :> <<-2, 1>>
    @@ <<1, -2, 3, 6>> :> <<-3, -1>>
    @@ <<-1, -1, 3, 6>> :> <<1, 0>> @@ <<0, -1, 3, 6>> :> <<0, 0>>
    @@ <<1, -1, 3, 6>> :> <<-1, 1>>
    @@ <<-1, 0, 3, 6>> :> <<0, -1>> @@ <<0, 0, 3, 6>> :> <<0, 0>>
    @@ <<1, 0, 3, 6>> :> <<-1, 0>>
    @@ <<-1, 1, 3, 6>> :> <<0, -2>> @@ <<0, 1, 3, 6>> :> <<-1, -1>>
    @@ <<1, 1, 3, 6>> :> <<-2, -1>>
    @@ <<-2, -2, 4, 6>> :> <<-1, 2>> @@ <<-1, -2, 4, 6>> :> <<0, 2>>
    @@ <<0, -2, 4, 6>> :> <<0, 1>> @@ <<1, -2, 4, 6>> :> <<-2, 1>>
    @@ <<-2, -1, 4, 6>> :> <<1, 1>> @@ <<-1, -1, 4, 6>> :> <<1, -1>>
    @@ <<0, -1, 4, 6>> :> <<0, -1>> @@ <<1, -1, 4, 6>> :> <<0, 1>>
    @@ <<-2, 0, 4, 6>> :> <<1, -1>> @@ <<-1, 0, 4, 6>> :> <<-1, -1>>
    @@ <<0, 0, 4, 6>> :> <<0, 0>> @@ <<1, 0, 4, 6>> :> <<0, 0>>
    @@ <<-2, 1, 4, 6>> :> <<2, -1>> @@ <<-1, 1, 4, 6>> :> <<-1, -2>>
    @@ <<0, 1, 4, 6>> :> <<-1, 0>> @@ <<1, 1, 4, 6>> :> <<-2, 0>>

\* lines 204-205: int(c + v) rounds towards zero; v is whole at the centre
\* only, where r = 0
IntOf(c, floor, whole) ==
    IF whole \/ c + floor >= 0 THEN c + floor ELSE c + floor + 1

\* lines 194-195, 200-205: the source coordinate computed for pixel p
SwirlSource(p, size, strength) ==
    LET width == size[1]
        height == size[2]
        cx == width \div 2
        cy == height \div 2
        dx == p[1] - cx
        dy == p[2] - cy
        turned == SwirlTurn[<<dx, dy, width, strength>>]
        whole == dx = 0 /\ dy = 0
    IN  <<IntOf(cx, turned[1], whole), IntOf(cy, turned[2], whole)>>

\* line 206: 0 <= new_x < width and 0 <= new_y < height
InBounds(q, size) ==
    /\ 0 <= q[1] /\ q[1] < size[1]
    /\ 0 <= q[2] /\ q[2] < size[2]

\* the swirl with the source clamped into the image as apply_wave does
SwirlClamped(image, strength) ==
    [size |-> image.size,
     px |-> [p \in DOMAIN image.px |->
               LET q == SwirlSource(p, image.size, strength)
               IN  image.px[<<Clamp(q[1], image.size[1] - 1),
                              Clamp(q[2], image.size[2] - 1)>>]]]

\* lines 192-208: dst starts as np.zeros_like(src); a pixel is assigned
\* only when its source is inside the image
apply_swirl(image, strength) ==
    [size |-> image.size,
     px |-> [p \in DOMAIN image.px |->
               LET q == SwirlSource(p, image.size, strength)
               IN  IF InBounds(q, image.size) THEN image.px[q]
                   ELSE <<0, 0, 0>>]]

\* a caller calls apply_swirl on a canvas with at most one pixel of text
SwirlCall ==
    /\ fx.sw.pc = "idle"
    /\ \E width \in 1 .. MaxSwirlSide, height \in 1 .. MaxSwirlSide,
          bg_color \in Backgrounds :
         \E ink \in {{}} \cup {{p} : p \in Pixels(width, height)} :
           fx' = [fx EXCEPT !.sw =
                    [IdleSwirl EXCEPT
                       !.pc = "called", !.bg_color = bg_color,
                       !.src = Canvas(width, height, bg_color, ink)]]
    /\ UNCHANGED <<clock, files, gen, ncalls, cl, ncleanups, web, output_dir, db,
                 mig, rng>>

\* lines 194-208
SwirlRun ==
    /\ fx.sw.pc = "called"
    /\ \E strength \in Strengths :
         fx' = [fx EXCEPT !.sw.pc = "returned",
                          !.sw.strength = strength,
                          !.sw.dst = apply_swirl(fx.sw.src, strength)]
    /\ UNCHANGED <<clock, files, gen, ncalls, cl, ncleanups, web, output_dir, db,
                 mig>>
    /\ rng' = Draw(rng, "random")

\* the caller has the result
SwirlDone ==
    /\ fx.sw.pc = "returned"
    /\ fx' = [fx EXCEPT !.sw = IdleSwirl]
    /\ UNCHANGED <<clock, files, gen, ncalls, cl, ncleanups, web, output_dir, db,
                 mig, rng>>

\* -------------------------------------------------------------- get_font
\* lines 63-67
font_paths ==
    <<"Arial.ttf", "/usr/share/fonts/truetype/dejavu/DejaVuSans-Bold.ttf",
      "/usr/share/fonts/truetype/freefont/FreeSans.ttf">>

\* what a font path can be when it is tried: no such file (os.path.exists
\* is False), a file ImageFont.truetype raises on, or a font that loads
FontStates == {"missing", "unloadable", "loads"}

\* line 36: random.randint(60, 90)
FontSizes == {60, 90}

\* line 37: generate_image calls get_font(font_size)
FontCall ==
    /\ fx.ft.pc = "idle"
    /\ \E fonts \in [DOMAIN font_paths -> FontStates],
          font_size \in FontSizes :
         fx' = [fx EXCEPT !.ft = [IdleFont EXCEPT !.pc = "trying",
                                                  !.fonts = fonts,
                                                  !.font_size = font_size,
                                                  !.at = 1]]
    /\ UNCHANGED <<clock, files, gen, ncalls, cl, ncleanups, web, output_dir, db,
                 mig, rng>>

\* mutant: the exception of a font that does not load leaves get_font
FontTryNoCatch ==
    /\ fx.ft.pc = "trying"
    /\ fx.ft.at <= Len(font_paths)
    /\ fx' = [fx EXCEPT !.ft =
                CASE fx.ft.fonts[fx.ft.at] = "loads" ->
                       [@ EXCEPT !.pc = "returned",
                                 !.font = font_paths[fx.ft.at]]
                  [] fx.ft.fonts[fx.ft.at] = "unloadable" ->
                       [@ EXCEPT !.pc = "raised"]
                  [] OTHER -> [@ EXCEPT !.at = @ + 1]]
    /\ UNCHANGED <<clock, files, gen, ncalls, cl, ncleanups, web, output_dir, db,
                 mig, rng>>

\* lines 68-73: one round of the loop: a path that does not exist is passed
\* over, the exception of one that does not load is caught and passed,
\* the font of one that loads is returned
FontTry ==
    /\ fx.ft.pc = "trying"
    /\ fx.ft.at <= Len(font_paths)
    /\ fx' = [fx EXCEPT !.ft =
                IF fx.ft.fonts[fx.ft.at] = "loads"
                THEN [@ EXCEPT !.pc = "returned",
                               !.font = font_paths[fx.ft.at]]
                ELSE [@ EXCEPT !.at = @ + 1]]
    /\ UNCHANGED <<clock, files, gen, ncalls, cl, ncleanups, web, output_dir, db,
                 mig, rng>>

\* line 74: after the loop, ImageFont.load_default()
FontDefault ==
    /\ fx.ft.pc = "trying"
    /\ fx.ft.at > Len(font_paths)
    /\ fx' = [fx EXCEPT !.ft.pc = "returned", !.ft.font = "default"]
    /\ UNCHANGED <<clock, files, gen, ncalls, cl, ncleanups, web, output_dir, db,
                 mig, rng>>

\* lines 40-46: generate_image goes on with the font, or the exception
\* leaves it
FontDone ==
    /\ fx.ft.pc \in {"returned", "raised"}
    /\ fx' = [fx EXCEPT !.ft = IdleFont]
    /\ UNCHANGED <<clock, files, gen, ncalls, cl, ncleanups, web, output_dir, db,
                 mig, rng>>

\* --------------------------------------------------------- migrations.py
\* lines 126-187: the migrations in the order of the list
MigrationNames ==
    <<"01_add_achievements", "02_enhance_game_sessions",
      "03_enhance_player_stats", "04_default_achievements">>

\* the number of statements of each
StatementCount == <<2, 1, 4, 1>>

\* lines 75-96: the statements that add a column, which are passed over
\* when column_exists finds the column
AddsColumn(at) == at \in {2, 3}

\* has_migration, line 41: SELECT id FROM migrations WHERE name = ?
has_migration(name) ==
    \E i \in DOMAIN db.migrations : db.migrations[i] = name

\* lines 61-63 and 190-192: on to the next migration of the list
NextMigration(m) ==
    IF m.at = Len(MigrationNames) THEN [m EXCEPT !.pc = "done"]
    ELSE [m EXCEPT !.pc = "has", !.at = @ + 1, !.stmt = 0]

\* mutant: the loop goes on to the next migration after a failure
Carried(m) ==
    [NextMigration(m) EXCEPT !.failed = @ \cup {m.at}]

\* lines 111-114 and 193-196: the transaction is rolled back, the exception
\* is raised again, run_migrations catches it and leaves the loop
Broken(m) ==
    [m EXCEPT !.pc = "done", !.failed = @ \cup {m.at}]

\* lines 198-201 and 190: Migration() has made sure of the migrations
\* table, run_migrations comes to the first migration
MigStart ==
    /\ mig.pc = "idle"
    /\ mig.runs < MaxRuns
    /\ mig' = [mig EXCEPT !.pc = "has", !.at = 1, !.stmt = 0, !.runs = @ + 1]
    /\ UNCHANGED <<clock, files, gen, ncalls, cl, ncleanups, web, fx,
                   output_dir, db, rng>>

\* lines 61-66: a recorded migration is passed over; the query may fail
MigHas ==
    /\ mig.pc = "has"
    /\ \E answered \in BOOLEAN :
         mig' = IF ~answered THEN Broken(mig)
                ELSE IF has_migration(MigrationNames[mig.at])
                     THEN NextMigration(mig)
                     ELSE [mig EXCEPT !.pc = "apply", !.stmt = 1]
    /\ UNCHANGED <<clock, files, gen, ncalls, cl, ncleanups, web, fx,
                   output_dir, db, rng>>

\* lines 69-99: the next statement is passed over if its column exists,
\* else executed; the column a statement adds stays when the migration
\* fails later, a statement that fails ends the migration
MigStatement ==
    /\ mig.pc = "apply"
    /\ mig.stmt <= StatementCount[mig.at]
    /\ LET this == <<mig.at, mig.stmt>>
       IN  IF AddsColumn(mig.at) /\ this \in db.columns
           THEN /\ mig' = [mig EXCEPT !.stmt = @ + 1]
                /\ db' = db
           ELSE \E executed \in BOOLEAN :
                  IF executed
                  THEN /\ mig' = [mig EXCEPT !.stmt = @ + 1]
                       /\ db' = IF AddsColumn(mig.at)
                                THEN [db EXCEPT !.columns = @ \cup {this}]
                                ELSE db
                  ELSE /\ mig' = Broken(mig)
                       /\ db' = db
    /\ UNCHANGED <<clock, files, gen, ncalls, cl, ncleanups, web, fx,
                   output_dir, rng>>

\* lines 101-109: the name is inserted into migrations and the transaction
\* committed, or one of the two fails and nothing is recorded
MigRecord ==
    /\ mig.pc = "apply"
    /\ mig.stmt > StatementCount[mig.at]
    /\ \E committed \in BOOLEAN :
         IF committed
         THEN /\ db' = [db EXCEPT !.migrations =
                         Append(@, MigrationNames[mig.at])]
              /\ mig' = NextMigration(mig)
         ELSE /\ db' = db
              /\ mig' = Broken(mig)
    /\ UNCHANGED <<clock, files, gen, ncalls, cl, ncleanups, web, fx,
                   output_dir, rng>>

\* line 196 or the end of the list: run_migrations returns
MigDone ==
    /\ mig.pc = "done"
    /\ mig' = [mig EXCEPT !.pc = "idle", !.at = 0, !.stmt = 0]
    /\ UNCHANGED <<clock, files, gen, ncalls, cl, ncleanups, web, fx,
                   output_dir, db, rng>>

\* ------------------------------------------------------ specifications
\* what the callers of the full system pass
PlayStrs == {None}
PlayNums == {PyStr(<<"7">>)}
PlayTiers == {Easy, Medium}

\* what a single caller may pass
AnyStrs == {None, PyStr(<<>>), PyStr(<<"7">>),
            PyStr(<<"1", "2", "3", "4", "5", "6">>),
            PyStr(<<"1", "a">>), PyStr(<<"1", "_", "2">>)}
AnyNums == {None, PyInt(42)}
AnyTiers == RecognizedTiers \cup {<<>>, <<"2", "_", "e", "a", "s", "y">>,
                                  <<"a", "/", "b">>}

Generate(c, strs, nums, tiers, limit) ==
    \/ Call(c, strs, nums, tiers, limit)
    \/ Stamp(c)
    \/ SaveOpen(c)
    \/ SaveWrite(c)
    \/ Return(c)

Cleanup(k) ==
    \/ CleanupStart(k)
    \/ CleanupVisit(k)
    \/ CleanupRemove(k)
    \/ CleanupFinish(k)
    \/ CleanupReturn(k)

\* concurrent requests generate images
NextCallers ==
    \/ Tick
    \/ \E c \in Callers : Generate(c, PlayStrs, PlayNums, PlayTiers, MaxCalls)

SpecCallers == Init /\ [][NextCallers]_vars

\* an artifact generate_image("7", "medium") left behind at time t
Artifact(t) ==
    [state |-> "complete", ctime |-> t, raced |-> FALSE,
     image |-> apply_difficulty_effects(NewImage(<<"7">>), Medium, 0)]

ArtifactName(t) == MakeFilename(<<"7">>, Medium, t)

\* the times the artifacts of the directory were written at: two hours,
\* an hour and a microsecond, an hour, a microsecond and no time before
\* CleanupClock
CleanupClock == Time(7200, 1)
WrittenAt == {Time(0, 0), Time(3600, 0), Time(3600, 1), Time(7200, 0),
              Time(7200, 1)}

\* files of the directory that generate_image did not write, two hours old
OtherNames == {<<".", "g", "i", "t", "k", "e", "e", "p">>,
               <<"m", "y", "_", "d", "i", "g", "i", "t", "s", "_", "7",
                 ".", "p", "n", "g">>}

OtherFile ==
    [state |-> "complete", ctime |-> Time(0, 0), raced |-> FALSE,
     image |-> NoImage]

\* the directory holds artifacts of several ages, and other files, and
\* requests clean it up
InitCleanup ==
    /\ clock = CleanupClock
    /\ \E written \in SUBSET WrittenAt, others \in SUBSET OtherNames :
         /\ Cardinality(written) + Cardinality(others) <= MaxFiles
         /\ files = [n \in {ArtifactName(t) : t \in written} |->
                       Artifact(CHOOSE t \in written : ArtifactName(t) = n)]
                    @@ [n \in others |-> OtherFile]
    /\ gen = [c \in Callers |-> IdleGen]
    /\ ncalls = 0
    /\ cl = [k \in Cleaners |-> IdleCleanup]
    /\ ncleanups = 0
    /\ web = IdleWeb
    /\ fx = IdleFx
    /\ output_dir = "present"
    /\ db = EmptyDb
    /\ mig = IdleMig
    /\ rng = FreshRng

NextCleanup == \E k \in Cleaners : Cleanup(k)

SpecCleanup == InitCleanup /\ [][NextCleanup]_vars

\* the artifact /play left at time t for a session that then went stale
StaleName(t) == MakeFilename(<<"7">>, Easy, t)

StaleSession(t) ==
    [NewGame EXCEPT !.current_number = PyStr(<<"7">>),
                    !.current_image = PyStr(StaleName(t))]

\* two hours and one hour before PlayClock
StaleAt == {Time(0, 0), Time(3600, 0)}
PlayClock == Time(7200, 0)

\* a player comes to the game for the first time, or comes back to a
\* session whose image was generated some time ago
InitPlay ==
    /\ clock = PlayClock
    /\ gen = [c \in Callers |-> IdleGen]
    /\ ncalls = 0
    /\ cl = [k \in Cleaners |-> IdleCleanup]
    /\ ncleanups = 0
    /\ fx = IdleFx
    /\ output_dir = "present"
    /\ db = EmptyDb
    /\ mig = IdleMig
    /\ rng = FreshRng
    /\ \/ files = <<>> /\ web = IdleWeb
       \/ \E t \in StaleAt :
            /\ files = (StaleName(t) :>
                          [state |-> "complete", ctime |-> t, raced |-> FALSE,
                           image |-> apply_difficulty_effects(
                                         NewImage(<<"7">>), Easy, 0)])
            /\ web = [IdleWeb EXCEPT !.session = StaleSession(t),
                                     !.game_state = StaleSession(t)]

NextPlay ==
    \/ PlayTick
    \/ WebBegin(PlayRoutes, MaxRequests)
    \/ PlayStart
    \/ CheckStart
    \/ WebGenerate(2 * MaxRequests)
    \/ WebTakeImage
    \/ PlayPurge
    \/ WebCleanup
    \/ WebCleanupDone
    \/ EnsureCheck
    \/ EnsuredSave
    \/ WebEnd
    \/ OtherCleanup

SpecPlay == InitPlay /\ [][NextPlay]_vars

\* the game of a player who has given no, one or two wrong answers so far
\* and has the image of the number 7 on the page
Played(wrong) ==
    [StaleSession(Time(0, 0)) EXCEPT !.lives = 3 - wrong,
                                     !.questions_answered = wrong]

InitGame ==
    /\ clock = Time(0, 1)
    /\ gen = [c \in Callers |-> IdleGen]
    /\ ncalls = 0
    /\ cl = [k \in Cleaners |-> IdleCleanup]
    /\ ncleanups = 0
    /\ fx = IdleFx
    /\ output_dir = "present"
    /\ db = EmptyDb
    /\ mig = IdleMig
    /\ rng = FreshRng
    /\ files = (StaleName(Time(0, 0)) :>
                  [state |-> "complete", ctime |-> Time(0, 0), raced |-> FALSE,
                   image |-> apply_difficulty_effects(
                                 NewImage(<<"7">>), Easy, 0)])
    /\ \E wrong \in 0 .. 2 :
         web = [IdleWeb EXCEPT !.session = Played(wrong),
                               !.game_state = Played(wrong)]

\* the player sends the requests of the game, in any order
NextGame ==
    \/ GameTick
    \/ WebBegin(GameRoutes, MaxGameRequests)
    \/ PlayStart
    \/ CheckStart
    \/ WebGenerate(2 * MaxGameRequests)
    \/ WebTakeImage
    \/ PlayPurge
    \/ WebCleanup
    \/ WebCleanupDone
    \/ EnsureCheck
    \/ EnsuredSave
    \/ GameOverSave
    \/ GameOverReset
    \/ Restart
    \/ WebEnd

SpecGame == InitGame /\ [][NextGame]_vars

\* run_migrations is called again and again on one database, any statement
\* failing or not
NextMigrations ==
    \/ MigStart
    \/ MigHas
    \/ MigStatement
    \/ MigRecord
    \/ MigDone

SpecMigrations == Init /\ [][NextMigrations]_vars

\* _obliterate is called with each recipe and every random outcome
NextObliterate ==
    \/ ObEnter
    \/ ObRotate
    \/ ObNoise
    \/ ObPixelate
    \/ ObInvert
    \/ ObContrast
    \/ ObBrightness
    \/ ObSwirl
    \/ ObWave
    \/ ObLines
    \/ ObBlur
    \/ ObChannel
    \/ ObReturn

SpecObliterate == Init /\ [][NextObliterate]_vars

\* apply_wave is called with each image, with and without an amplitude
NextWave ==
    \/ WaveCall
    \/ WaveRun
    \/ WaveDone

SpecWave == Init /\ [][NextWave]_vars

\* apply_wave and apply_swirl are called, each with every image
NextDistort ==
    \/ WaveCall
    \/ WaveRun
    \/ WaveDone
    \/ SwirlCall
    \/ SwirlRun
    \/ SwirlDone

SpecDistort == Init /\ [][NextDistort]_vars

\* get_font is called with the font files in every condition
NextFont ==
    \/ FontCall
    \/ FontTry
    \/ FontDefault
    \/ FontDone

SpecFont == Init /\ [][NextFont]_vars

\* one caller, any arguments
NextInputs ==
    \/ Tick
    \/ Generate("c1", AnyStrs, AnyNums, AnyTiers, MaxInputCalls)

SpecInputs == Init /\ [][NextInputs]_vars

\* one caller passing what app.py passes, the directory coming and going
NextDirectory ==
    \/ Tick
    \/ Generate("c1", PlayStrs, PlayNums, PlayTiers, MaxCalls)
    \/ Construct
    \/ RemoveDirectory

SpecDirectory == Init /\ [][NextDirectory]_vars

\* ============================================================ claims
\* a string of one or more decimal digits
IsDigitString(s) == Len(s) > 0 /\ \A i \in 1..Len(s) : s[i] \in DigitSet

InCall(c) == gen[c].pc # "idle"
BothAbsent(c) == gen[c].number_str = None /\ gen[c].number = None

\* C1: generate_image called with neither number_str nor number raises
\* ValueError before anything is rendered, and the call creates no file.
C1_NoInputRaises ==
    [][\A c \in Callers :
          /\ (~InCall(c) /\ gen'[c].pc # "idle"
                /\ gen'[c].number_str = None /\ gen'[c].number = None)
             => /\ gen'[c].pc = "raised"
                /\ gen'[c].err = "ValueError"
                /\ gen'[c].image = NoImage
                /\ files' = files
          /\ (InCall(c) /\ BothAbsent(c))
             => /\ gen[c].pc = "raised"
                /\ files' = files
                /\ gen'[c].pc \in {"raised", "idle"}]_vars

C1_Witness ==
    \E c \in Callers :
        gen[c].pc = "raised" /\ gen[c].err = "ValueError" /\ BothAbsent(c)

\* C2: generate_image called with an empty string, or with a string holding
\* a character that is no digit, fails before it renders anything.
C2_InvalidStringRejected ==
    \A c \in Callers :
        (/\ InCall(c)
         /\ gen[c].number = None
         /\ gen[c].number_str # None
         /\ ~IsDigitString(gen[c].number_str.val))
        => gen[c].pc = "raised" /\ gen[c].image = NoImage

\* C3: with a tier that is not recognized the call does not raise, and it
\* returns the name of a file it has written.
C3_UnknownTierNeverRaises ==
    \A c \in Callers :
        (/\ InCall(c)
         /\ IsDigitString(gen[c].text)
         /\ gen[c].difficulty \notin RecognizedTiers)
        => /\ gen[c].pc # "raised"
           /\ gen[c].image.size = apply_difficulty_effects(
                                      NewImage(gen[c].text), Medium, 0).size
           /\ gen[c].pc = "returned" => gen[c].filename \in DOMAIN files

IsTimestampText(ts) ==
    /\ Len(ts) = 22
    /\ ts[9] = "_"
    /\ ts[16] = "_"
    /\ \A i \in (1..22) \ {9, 16} : ts[i] \in DigitSet

\* name is digits_{text}_{tier}_{YYYYMMDD_HHMMSS_ffffff}.png
HasArtifactForm(name, text, tier) ==
    LET head == <<"d", "i", "g", "i", "t", "s", "_">> \o text \o <<"_">>
                  \o tier \o <<"_">>
        n == Len(name)
    IN  /\ n = Len(head) + 22 + 4
        /\ SubSeq(name, 1, Len(head)) = head
        /\ IsTimestampText(SubSeq(name, Len(head) + 1, n - 4))
        /\ SubSeq(name, n - 3, n) = <<".", "p", "n", "g">>

ValidCall(c) ==
    /\ IsDigitString(gen[c].text)
    /\ Len(gen[c].text) <= 6
    /\ gen[c].difficulty \in RecognizedTiers

\* C4: for a digit string of 1 to 6 digits and a recognized tier, the name
\* returned has the form digits_{digits}_{tier}_{timestamp with
\* microseconds}.png and a file of that name is in the directory when the
\* call returns.
C4_ReturnedNameAndFile ==
    \A c \in Callers :
        (gen[c].pc = "returned" /\ ValidCall(c))
        => /\ HasArtifactForm(gen[c].filename, gen[c].text, gen[c].difficulty)
           /\ gen[c].filename \in DOMAIN files
           /\ files[gen[c].filename].state = "complete"

C4_Witness ==
    \E c \in Callers :
        /\ gen[c].pc = "returned"
        /\ ValidCall(c)
        /\ Len(gen[c].text) = 6
        /\ gen[c].timestamp.s > 0
        /\ gen[c].filename \in DOMAIN files

\* C5: for every recognized tier and every rotation angle, the image saved
\* is 400 x 200.
C5_SavedSizeIsCanvas ==
    \A c \in Callers :
        (gen[c].pc = "returned" /\ ValidCall(c)
           /\ gen[c].filename \in DOMAIN files)
        => files[gen[c].filename].image.size = <<CanvasWidth, CanvasHeight>>

\* the place of the first "_" of s, or Len(s) + 1
RECURSIVE FirstUnderscore(_, _)
FirstUnderscore(s, i) ==
    IF i > Len(s) \/ s[i] = "_" THEN i ELSE FirstUnderscore(s, i + 1)

\* digits_<value>_<tier>_<timestamp>.png taken apart: the marker, the
\* suffix and the 22 characters of the timestamp are fixed, the value ends
\* at the first "_" after the marker and the tier is what lies between
ParseFilename(name) ==
    LET middle == SubSeq(name, 8, Len(name) - 4 - 22 - 1)
        cut == FirstUnderscore(middle, 1)
    IN  [value |-> SubSeq(middle, 1, cut - 1),
         tier |-> SubSeq(middle, cut + 1, Len(middle))]

\* C6: parsing the returned name gives back the string that was rendered
\* and the tier that was passed.
C6_FilenameRoundTrip ==
    \A c \in Callers :
        gen[c].pc = "returned"
        => ParseFilename(gen[c].filename)
             = [value |-> gen[c].text, tier |-> gen[c].difficulty]

SameArguments(c, d) ==
    /\ gen[c].number_str = gen[d].number_str
    /\ gen[c].number = gen[d].number
    /\ gen[c].difficulty = gen[d].difficulty

\* C7 as stated: two calls with the same digit string and the same tier
\* return two different names.
C7_DistinctFilenames ==
    \A c, d \in Callers :
        (c # d /\ gen[c].pc = "returned" /\ gen[d].pc = "returned"
           /\ SameArguments(c, d))
        => gen[c].filename # gen[d].filename

\* C7, amended: two calls with the same digit string and the same tier
\* that read the clock at different microseconds return two different
\* names.
C7_DistinctWhenClockDiffers ==
    \A c, d \in Callers :
        (c # d /\ gen[c].pc = "returned" /\ gen[d].pc = "returned"
           /\ SameArguments(c, d) /\ gen[c].timestamp # gen[d].timestamp)
        => gen[c].filename # gen[d].filename

C7_Witness ==
    \E c, d \in Callers :
        /\ c # d /\ gen[c].pc = "returned" /\ gen[d].pc = "returned"
        /\ SameArguments(c, d)
        /\ gen[c].timestamp.s = gen[d].timestamp.s
        /\ gen[c].timestamp.u # gen[d].timestamp.u
        /\ gen[c].filename # gen[d].filename

\* C8: with every caller in a call with the same arguments, no call
\* raises, every file in the directory is at every moment a whole PNG, and
\* when all the calls have returned there are as many files as callers.
C8_ConcurrentCallsSafe ==
    (\A c, d \in Callers : InCall(c) /\ InCall(d) /\ SameArguments(c, d))
    => /\ \A c \in Callers : gen[c].pc # "raised"
       /\ \A n \in DOMAIN files : files[n].state = "complete"
       /\ (\A c \in Callers : gen[c].pc = "returned")
          => Cardinality(DOMAIN files) = Cardinality(Callers)

\* now is more than minutes after t
MoreThanMinutesAfter(now, t, minutes) ==
    \/ now.s > t.s + 60 * minutes
    \/ now.s = t.s + 60 * minutes /\ now.u > t.u

\* the files of the directory that are no artifacts or are at most
\* max_age_minutes old
Kept(k) ==
    {n \in DOMAIN cl[k].before :
        \/ SubSeq(n, 1, 7) # <<"d", "i", "g", "i", "t", "s", "_">>
        \/ ~MoreThanMinutesAfter(cl[k].now, cl[k].before[n].ctime,
                              cl[k].max_age_minutes)}

\* C9: a cleanup that runs with nothing else changing the directory deletes
\* exactly the artifacts older than max_age_minutes, as of the time it
\* read, and leaves the others as they were.
C9_CleanupDeletesExactlyExpired ==
    \A k \in Cleaners :
        (cl[k].pc = "done" /\ cl[k].quiet /\ cl[k].caught = "none")
        => files = [n \in Kept(k) |-> cl[k].before[n]]

C9_Witness ==
    \E k \in Cleaners :
        /\ cl[k].pc = "done" /\ cl[k].quiet /\ cl[k].caught = "none"
        /\ cl[k].max_age_minutes = DefaultMaxAge
        /\ Kept(k) # {}
        /\ DOMAIN cl[k].before \ Kept(k) # {}
        /\ \E n \in Kept(k) :
             /\ cl[k].now.s = cl[k].before[n].ctime.s + 60 * DefaultMaxAge
             /\ cl[k].now.u = cl[k].before[n].ctime.u

\* C10: cleanup_old_images never raises: a failure of the listing, of the
\* lookup of a creation time or of a removal is caught and the call
\* returns.
C10_CleanupNeverRaises ==
    \A k \in Cleaners :
        /\ ~cl[k].raised
        /\ cl[k].caught # "none" => cl[k].pc = "done"

C10_Witness ==
    \E k \in Cleaners :
        /\ cl[k].pc = "done" /\ cl[k].caught = "FileNotFoundError"
        /\ ~cl[k].raised

\* the artifacts a cleanup listed and did not reach that are still in the
\* directory and older than its max_age_minutes
LeftExpired(k) ==
    {n \in cl[k].todo \cap DOMAIN files :
        MoreThanMinutesAfter(cl[k].now, files[n].ctime,
                             cl[k].max_age_minutes)}

\* C11, as stated: a cleanup that found an artifact already removed by
\* another process goes on and has deleted every other expired artifact it
\* listed when it returns.
C11_ScanSurvivesMissingFile ==
    \A k \in Cleaners :
        (cl[k].pc = "done" /\ cl[k].caught = "FileNotFoundError")
        => LeftExpired(k) = {}

\* C11, amended: the FileNotFoundError of an artifact removed by another
\* process is caught and ends the scan: the call returns without raising
\* and visits none of the files it had not reached.
C11_MissingFileEndsScan ==
    [][\A k \in Cleaners :
          cl[k].caught = "FileNotFoundError"
          => /\ ~cl[k].raised
             /\ \/ cl'[k] = IdleCleanup
                \/ cl'[k].pc = "done" /\ cl'[k].todo = cl[k].todo]_vars

C11_Witness ==
    \E k \in Cleaners :
        /\ cl[k].pc = "done" /\ cl[k].caught = "FileNotFoundError"
        /\ LeftExpired(k) # {}
        /\ \A j \in Cleaners \ {k} : cl[j].pc = "idle"
        /\ ncleanups = MaxCleanups

\* the files of the directory whose name does not start with "digits_"
NonArtifacts(dir) ==
    {n \in DOMAIN dir : SubSeq(n, 1, 7) # <<"d", "i", "g", "i", "t", "s", "_">>}

\* C12: cleanup_old_images deletes only files whose name starts with
\* "digits_": every other file of the directory stays, unchanged, whatever
\* its age.
C12_CleanupKeepsOtherFiles ==
    [][\A n \in NonArtifacts(files) :
          n \in DOMAIN files' /\ files'[n] = files[n]]_vars

C12_Witness ==
    \E k \in Cleaners :
        /\ cl[k].pc = "done" /\ cl[k].caught = "none" /\ cl[k].todo = {}
        /\ cl[k].max_age_minutes = DefaultMaxAge
        /\ DOMAIN cl[k].before \ DOMAIN files # {}
        /\ \E n \in NonArtifacts(cl[k].before) :
             /\ MoreThanMinutesAfter(cl[k].now, cl[k].before[n].ctime,
                                     DefaultMaxAge)
             /\ n \in DOMAIN files

\* C13, as stated: generate_image only adds files: an artifact that is in
\* the directory, whole, stays there with the content it has.
C13_OnlyAddsFiles ==
    [][\A n \in DOMAIN files :
          files[n].state = "complete"
          => n \in DOMAIN files' /\ files'[n] = files[n]]_vars

\* a call that has chosen the name n and has not finished writing it
WritesTo(c, n) ==
    gen[c].pc \in {"stamped", "saving"} /\ gen[c].filename = n

\* C13, amended: generate_image deletes no file and changes no file but the
\* one it names: an artifact is overwritten only by a call that writes to
\* that very name.
C13_ChangesOnlyItsOwnFile ==
    [][\A n \in DOMAIN files :
          /\ n \in DOMAIN files'
          /\ files'[n] # files[n] => \E c \in Callers : WritesTo(c, n)]_vars

C13_Witness ==
    \E c, d \in Callers :
        /\ c # d /\ gen[d].pc = "returned" /\ gen[c].pc = "saving"
        /\ gen[c].filename = gen[d].filename
        /\ gen[c].filename \in DOMAIN files
        /\ files[gen[c].filename].state = "partial"

\* current_image names a file generate_image wrote for current_number
ImageIsForNumber(g) ==
    /\ g.current_image # None
    /\ g.current_number # None
    /\ HasArtifactForm(g.current_image.val, g.current_number.val,
                       g.difficulty)

\* the step that saves the game state and renders the page
Renders == web.pc = "ensured" /\ web'.pc = "rendered"

\* C14, as stated: when a /play or /check_answer request finishes
\* rendering, current_image of the session names a file that is in the
\* directory and was generated for current_number, and no request crashes.
C14_RenderedImageExists ==
    [][/\ web'.pc # "crashed"
       /\ Renders
          => /\ ImageIsForNumber(web'.session)
             /\ web'.session.current_image.val \in DOMAIN files']_vars

\* C14, amended: when a /play or /check_answer request finishes
\* rendering, current_image of the session names a file that was generated
\* for current_number and that was in the directory when
\* ensure_image_for_state looked it up or generated it again; it is still
\* there unless the cleanup of another request has removed it.  No
\* request crashes.
C14_RenderedImageLookedUp ==
    [][/\ web'.pc # "crashed"
       /\ Renders
          => /\ ImageIsForNumber(web'.session)
             /\ \/ web'.session.current_image.val \in DOMAIN files'
                \/ web'.session.current_image.val
                     \in cl["k2"].removed]_vars

\* a stale session whose file a cleanup had removed has a new image
C14_Witness ==
    /\ web.pc = "rendered"
    /\ web.nreqs = 1
    /\ \E t \in StaleAt : StaleName(t) \in cl["k2"].removed
    /\ ImageIsForNumber(web.session)
    /\ web.session.current_image.val \in DOMAIN files
    /\ files[web.session.current_image.val].state = "complete"

\* where in the trace of the _obliterate call a stage has run
Positions(stage) ==
    {i \in DOMAIN fx.ob.trace : fx.ob.trace[i].stage = stage}

\* whatever has run of stage a has run before whatever has run of stage b
Before(a, b) == \A i \in Positions(a), j \in Positions(b) : i < j

\* the recipes of the five tiers
TierRecipes == {StyleFor(tier) : tier \in RecognizedTiers}

\* C15: for every tier the rotation runs before the noise injection: no
\* noise is blended in before the image has been rotated.
C15_RotationBeforeNoise ==
    Positions("noise") # {}
    => Positions("rotate") # {} /\ Before("rotate", "noise")

C15_Witness ==
    /\ fx.ob.pc = "returned"
    /\ fx.ob.recipe \in TierRecipes
    /\ \E i, j \in DOMAIN fx.ob.trace :
         /\ i < j
         /\ fx.ob.trace[i] = [stage |-> "rotate", changed |-> TRUE]
         /\ fx.ob.trace[j] = [stage |-> "noise", changed |-> TRUE]

\* C16, as stated: the geometric transforms run in the order rotation,
\* wave, swirl.
C16_RotationWaveSwirl ==
    /\ Before("rotate", "wave")
    /\ Before("rotate", "swirl")
    /\ Before("wave", "swirl")

\* C16, amended: the geometric transforms run in the order rotation,
\* swirl, wave; a recipe that asks for both swirl and wave gets the swirl
\* first.
C16_RotationSwirlWave ==
    /\ Positions("swirl") \cup Positions("wave") # {}
       => Positions("rotate") # {}
    /\ Before("rotate", "swirl")
    /\ Before("rotate", "wave")
    /\ Before("swirl", "wave")

C16_Witness ==
    /\ fx.ob.pc = "returned"
    /\ fx.ob.recipe.swirl /\ fx.ob.recipe.wave
    /\ \E i, j \in DOMAIN fx.ob.trace :
         /\ i < j
         /\ fx.ob.trace[i].stage = "swirl"
         /\ fx.ob.trace[j].stage = "wave"

\* the stages of the geometric distorter and of the compositor, and the
\* place of each compositor stage in the order C17 states
Geometric == {"rotate", "wave", "swirl"}

StatedPlace(stage) ==
    CASE stage \in {"contrast", "brightness"} -> 1
      [] stage = "noise" -> 2
      [] stage = "pixelate" -> 3
      [] stage \in {"invert", "channel"} -> 4
      [] stage = "lines" -> 5
      [] stage = "blur" -> 6
      [] OTHER -> 0

PlaceInCode(stage) ==
    CASE stage = "rotate" -> 1
      [] stage = "noise" -> 2
      [] stage = "pixelate" -> 3
      [] stage = "invert" -> 4
      [] stage = "contrast" -> 5
      [] stage = "brightness" -> 6
      [] stage = "swirl" -> 7
      [] stage = "wave" -> 8
      [] stage = "lines" -> 9
      [] stage = "blur" -> 10
      [] stage = "channel" -> 11

C18_BlurIsLast ==
    \A i \in Positions("blur"), j \in DOMAIN fx.ob.trace :
        j > i => ~fx.ob.trace[j].changed

\* C18, amended: every stage but the random channel inversion runs before
\* the Gaussian blur, the lines included; the channel inversion is the
\* only step that runs after it.
C18_OnlyChannelAfterBlur ==
    /\ \A i \in Positions("blur"), j \in DOMAIN fx.ob.trace :
         j > i => fx.ob.trace[j].stage = "channel"
    /\ fx.ob.pc = "returned" => Positions("blur") # {}

C18_Witness ==
    /\ fx.ob.pc = "returned"
    /\ \E i \in DOMAIN fx.ob.trace :
         /\ i + 1 = Len(fx.ob.trace)
         /\ i > 1
         /\ fx.ob.trace[i - 1] = [stage |-> "lines", changed |-> TRUE]
         /\ fx.ob.trace[i] = [stage |-> "blur", changed |-> TRUE]
         /\ fx.ob.trace[i + 1] = [stage |-> "channel", changed |-> TRUE]

\* the stages that left an image that can differ from the one they got
Changing == {fx.ob.trace[i].stage : i \in {j \in DOMAIN fx.ob.trace :
                                             fx.ob.trace[j].changed}}

\* noise 0, blur 0, no lines, every flag False
AllSkipped(recipe) ==
    /\ recipe.noise = 0 /\ recipe.blur = 0 /\ recipe.lines = 0
    /\ ~recipe.swirl /\ ~recipe.wave /\ ~recipe.pixelate
    /\ ~recipe.invert /\ ~recipe.contrast /\ ~recipe.brightness

\* C19, as stated: with noise 0, blur 0, no lines and every flag False the
\* image returned has the size and the pixels of the image passed in,
\* whatever the random outcomes.
C19_AllSkippedIsIdentity ==
    (fx.ob.pc = "returned" /\ AllSkipped(fx.ob.recipe))
    => fx.ob.size = fx.ob.entry /\ Changing = {}

\* C19, amended: with noise 0, blur 0, no lines and every flag False,
\* noise, pixelation, inversion, contrast, brightness, swirl, wave, lines
\* and blur leave the image as it is: the image returned differs from the
\* one passed in by the random rotation and the random channel inversion
\* alone, which no parameter switches off.
C19_OnlyRotationAndChannelLeft ==
    (fx.ob.pc = "returned" /\ AllSkipped(fx.ob.recipe))
    => /\ Changing \subseteq {"rotate", "channel"}
       /\ "rotate" \notin Changing => fx.ob.size = fx.ob.entry

C19_Witness ==
    /\ fx.ob.pc = "returned" /\ AllSkipped(fx.ob.recipe)
    /\ Changing = {"rotate", "channel"}
    /\ fx.ob.size # fx.ob.entry
    /\ {"noise", "lines", "blur"}
         \subseteq {fx.ob.trace[i].stage : i \in DOMAIN fx.ob.trace}

\* C20: a wave warp applied with amplitude 0 gives back its input: the call
\* returns and the image it returns has the pixels of the image passed.
C20_WaveZeroAmplitudeIsIdentity ==
    (/\ fx.wv.pc \in {"returned", "raised"}
     /\ Len(fx.wv.args) = 2
     /\ fx.wv.args[2] = PyInt(0))
    => /\ fx.wv.pc = "returned"
       /\ fx.wv.dst = fx.wv.args[1]

\* the source pixel apply_wave's policy names for p: the offset coordinate
\* brought to the nearest pixel inside the image
WaveSource(p, size) ==
    LET x == p[1] + offset_x(p[2])
        y == p[2] + offset_y(p[1])
    IN  <<IF x < 0 THEN 0 ELSE IF x >= size[1] THEN size[1] - 1 ELSE x,
          IF y < 0 THEN 0 ELSE IF y >= size[2] THEN size[2] - 1 ELSE y>>

WaveClamps ==
    fx.wv.pc = "returned"
    => \A p \in DOMAIN fx.wv.dst.px :
         fx.wv.dst.px[p] = fx.wv.args[1].px[WaveSource(p, fx.wv.dst.size)]

\* the returned swirl has the source pixel wherever the source is inside
\* the image, and the colour left elsewhere
SwirlLeaves(left) ==
    fx.sw.pc = "returned"
    => \A p \in DOMAIN fx.sw.dst.px :
         LET q == SwirlSource(p, fx.sw.src.size, fx.sw.strength)
         IN  fx.sw.dst.px[p] = IF InBounds(q, fx.sw.src.size)
                               THEN fx.sw.src.px[q] ELSE left

\* C21, as stated: a swirl pixel whose source is outside the canvas is left
\* as the canvas background colour, one whose source is inside receives the
\* source pixel; the wave clamps the source into the canvas for every pixel.
C21_SwirlLeavesBackground ==
    SwirlLeaves(fx.sw.bg_color) /\ WaveClamps

\* C21, amended: a swirl pixel whose source is outside the canvas is left
\* as the zero (black) pixel the destination array starts with, not
\* clamped to an edge pixel; one whose source is inside receives the source
\* pixel; the wave clamps the source into the canvas for every pixel.
C21_SwirlLeavesZero ==
    SwirlLeaves(Black) /\ WaveClamps

\* a swirl has returned with a pixel whose source was outside the canvas
\* and a moved pixel whose source was inside, and a wave has returned with
\* a pixel whose source was clamped
C21_Witness ==
    /\ fx.sw.pc = "returned"
    /\ \E p \in DOMAIN fx.sw.dst.px :
         /\ ~InBounds(SwirlSource(p, fx.sw.src.size, fx.sw.strength),
                      fx.sw.src.size)
         /\ fx.sw.dst.px[p] # fx.sw.src.px[p]
    /\ \E p \in DOMAIN fx.sw.dst.px :
         LET q == SwirlSource(p, fx.sw.src.size, fx.sw.strength)
         IN  InBounds(q, fx.sw.src.size) /\ q # p
             /\ fx.sw.src.px[q] # fx.sw.src.px[p]
    /\ fx.wv.pc = "returned"
    /\ \E p \in DOMAIN fx.wv.dst.px :
         ~InBounds(<<p[1] + offset_x(p[2]), p[2] + offset_y(p[1])>>,
                   fx.wv.dst.size)

\* the listed fonts that load, by their place in the list
Loading == {i \in DOMAIN fx.ft.fonts : fx.ft.fonts[i] = "loads"}

\* C22: get_font never fails: it returns the first listed font that exists
\* and loads, a missing or unloadable one being passed over, and the
\* built-in default font when none does; no exception leaves it.
C22_FontNeverFails ==
    /\ fx.ft.pc # "raised"
    /\ fx.ft.pc = "returned"
       => IF Loading = {} THEN fx.ft.font = "default"
          ELSE \E i \in Loading :
                 /\ fx.ft.font = font_paths[i]
                 /\ \A j \in Loading : i <= j

\* the default font was returned with a font missing and one unloadable, or
\* the last font was returned after an unloadable and a missing one
C22_Witness ==
    /\ fx.ft.pc = "returned"
    /\ fx.ft.fonts[1] = "unloadable"
    /\ fx.ft.fonts[2] = "missing"
    /\ \/ fx.ft.fonts[3] = "missing" /\ fx.ft.font = "default"
       \/ fx.ft.fonts[3] = "loads" /\ fx.ft.font = font_paths[3]

\* C23: generate_image creates the artifact directory if it is absent when
\* the call runs: the call does not fail for want of the directory, and the
\* file it is writing is in the directory.
C23_AbsentDirectoryIsCreated ==
    \A c \in Callers :
        /\ gen[c].pc # "raised"
        /\ gen[c].pc = "saving"
           => output_dir = "present" /\ gen[c].filename \in DOMAIN files

\* C24: a generate_image invocation is self-contained: its steps read and
\* write no state shared with another invocation except the directory; its
\* random draws leave the process-wide generators as they were, and the
\* other invocation's state is its own.
C24_CallsShareOnlyTheDirectory ==
    [][\A c \in Callers :
         gen'[c] # gen[c]
         => /\ rng' = rng
            /\ \A o \in Callers \ {c} : gen'[o] = gen[o]]_vars

\* a call that got past its arguments
Drawn(c) == gen[c].pc \in {"rendered", "stamped", "saving", "returned"}
Named(c) == gen[c].pc \in {"stamped", "saving", "returned"}

\* C25: when number_str and number are both passed, number wins: the text
\* drawn and the digit field of the file name are str(number); when one of
\* the two is passed, the string form of that one is used.
C25_NumberTakesPrecedence ==
    \A c \in Callers :
        Drawn(c)
        => LET used == IF gen[c].number # None THEN StrOf(gen[c].number)
                       ELSE gen[c].number_str.val
           IN  /\ gen[c].text = used
               /\ gen[c].image.text = used
               /\ Named(c)
                  => StartsWith(gen[c].filename,
                                DigitsMarker \o used \o <<"_">>
                                  \o gen[c].difficulty \o <<"_">>)

\* a call passed both, a number_str other than str(number), has returned
\* the name of the file it wrote
C25_Witness ==
    \E c \in Callers :
        /\ gen[c].pc = "returned"
        /\ gen[c].number_str # None /\ gen[c].number # None
        /\ gen[c].number_str.val # StrOf(gen[c].number)
        /\ gen[c].filename \in DOMAIN files

\* the rows of game_sessions written for a game
RowsOf(game) ==
    {i \in DOMAIN db.game_sessions : db.game_sessions[i].game = game}

\* C26: a game that ended, its lives at 0 in check_answer, is recorded
\* once: when game_over has recorded and is about to reset it, game_sessions
\* holds exactly one row of that game.
C26_EndedGameRecordedOnce ==
    (web.pc = "game_over_reset" /\ web.game_state.lives <= 0)
    => Cardinality(RowsOf(web.game)) = 1

\* C27: in every session game state lives is within 0..3, whatever the
\* requests: check_answer takes no life from a game that has none.
C27_LivesWithinBounds ==
    /\ web.session.lives \in 0 .. 3
    /\ web.game_state.lives \in 0 .. 3

\* the names recorded are the first names of the list, in its order, each
\* once
RecordedIsPrefix(recorded) ==
    /\ Len(recorded) <= Len(MigrationNames)
    /\ \A i \in DOMAIN recorded : recorded[i] = MigrationNames[i]

\* C28: after any runs of run_migrations, failing or not, the names in the
\* migrations table are a prefix of the ordered list, each recorded once; a
\* recorded migration is not executed again; a migration that fails records
\* nothing and ends the run before a later migration is applied.
C28_RecordedIsPrefixOfList ==
    /\ [](/\ RecordedIsPrefix(db.migrations)
          /\ mig.pc = "apply"
             => \A i \in DOMAIN db.migrations :
                  db.migrations[i] # MigrationNames[mig.at])
    /\ [][mig'.failed # mig.failed
          => db'.migrations = db.migrations /\ mig'.pc = "done"]_vars

\* a run in which the second migration failed left the first recorded alone,
\* and a later run has recorded all four
C28_Witness ==
    /\ mig.failed = {2}
    /\ mig.runs = 2
    /\ mig.pc = "done"
    /\ db.migrations = MigrationNames

====
